---- MODULE Spec2Model ----
(***************************************************************************)
(* A model of the tree-walking evaluator of shift-interpreter.             *)
(*                                                                         *)
(* The node handlers (NodeHandler, src/unnamed/part_000) are big-step      *)
(* operators over an explicit interpreter state record `st`: one operator  *)
(* per handler, named as the handler.  Every operator returns a completion *)
(* record [st, val, thrown]: the interpreter state after the handler, the  *)
(* value it yields, and whether it exits by a host exception (val is then  *)
(* the thrown value).                                                       *)
(*                                                                         *)
(* The state machine around it is interpretTree (src/unnamed/part_001):    *)
(* construct an Interpreter, load the tree, push the ambient context, run. *)
(***************************************************************************)
EXTENDS Integers, Sequences, FiniteSets, TLC

VARIABLES
    prog,     \* the program handed to interpretTree (family and parameters)
    phase,    \* position inside interpretTree: "new", "loaded", "ready", "done"
    interp,   \* the Interpreter instance (contexts, variableMap, flags, heap)
    result,   \* the completion of interpreter.run()
    runs      \* what the finished calls of interpretTree yielded and left

vars == <<prog, phase, interp, result, runs>>

----------------------------------------------------------------------------
(* Runtime values: one record shape for every value, t is the type tag.    *)

Undef == [t |-> "undefined", n |-> 0, s |-> ""]
Null == [t |-> "null", n |-> 0, s |-> ""]
Num(n) == [t |-> "number", n |-> n, s |-> ""]
Str(s) == [t |-> "string", n |-> 0, s |-> s]
Bool(b) == [t |-> "boolean", n |-> IF b THEN 1 ELSE 0, s |-> ""]
\* a reference to heap object n
Obj(n) == [t |-> "object", n |-> n, s |-> ""]
\* a reference to interpreter callable n of st.fns
Fn(n) == [t |-> "function", n |-> n, s |-> ""]
\* a host (native) callable, named s
Host(s) == [t |-> "host", n |-> 0, s |-> s]
\* a host error object: ReferenceError, TypeError, InterpreterRuntimeError
Err(s) == [t |-> "error", n |-> 0, s |-> s]
\* not a value of the program: the evaluation budget of the model ran out
Diverged == [t |-> "diverged", n |-> 0, s |-> ""]

\* host truthiness (if / while tests, && and ||, !)
Truthy(v) ==
    CASE v.t = "undefined" -> FALSE
      [] v.t = "null" -> FALSE
      [] v.t = "number" -> v.n /= 0
      [] v.t = "string" -> v.s /= ""
      [] v.t = "boolean" -> v.n = 1
      [] OTHER -> TRUE

\* host typeof
TypeOf(v) ==
    CASE v.t = "undefined" -> "undefined"
      [] v.t = "null" -> "object"
      [] v.t = "number" -> "number"
      [] v.t = "string" -> "string"
      [] v.t = "boolean" -> "boolean"
      [] v.t = "function" -> "function"
      [] v.t = "host" -> "function"
      [] OTHER -> "object"

----------------------------------------------------------------------------
(* Completions, finite maps, heap objects.                                  *)

Ok(st, v) == [st |-> st, val |-> v, thrown |-> FALSE]
Thrown(st, e) == [st |-> st, val |-> e, thrown |-> TRUE]

EmptyMap == [k \in {} |-> Undef]
Put(m, k, v) == (k :> v) @@ m

\* a plain object: data properties in insertion order, accessor halves
NewObject ==
    [kind |-> "object", keys |-> <<>>, props |-> EmptyMap, get |-> EmptyMap,
     set |-> EmptyMap, elems |-> <<>>]
\* an array: its elements in order
NewArray(elems) == [NewObject EXCEPT !.kind = "array", !.elems = elems]

SeqHas(seq, x) == \E i \in 1..Len(seq) : seq[i] = x

\* obj[name] = v on a data property (no accessor declared for name)
SetData(o, name, v) ==
    [o EXCEPT !.keys = IF SeqHas(@, name) THEN @ ELSE Append(@, name),
              !.props = Put(@, name, v)]

\* `name in object`: own data or accessor property
HasProperty(o, name) ==
    name \in DOMAIN o.props \/ name \in DOMAIN o.get \/ name \in DOMAIN o.set

----------------------------------------------------------------------------
(* shift-ast nodes, as the parser and the scope analyser hand them over.    *)
(* An identifier node carries its textual name and the Variable token the   *)
(* scope analyser resolved it to (var).  NoNode is a null child.            *)

NoNode == [type |-> "null"]
\* a node with a label: evaluate() logs the label when it visits the node
L(lbl, node) == ("lbl" :> lbl) @@ node

NumLit(n) == [type |-> "LiteralNumericExpression", value |-> n]
StrLit(s) == [type |-> "LiteralStringExpression", value |-> s]
BoolLit(b) == [type |-> "LiteralBooleanExpression", value |-> b]
NullLit == [type |-> "LiteralNullExpression"]
\* /pattern/flags: flags is the set of flag names set on the literal
RegExpLit(pattern, flags) ==
    [type |-> "LiteralRegExpExpression", pattern |-> pattern,
     global |-> "global" \in flags, ignoreCase |-> "ignoreCase" \in flags,
     multiLine |-> "multiline" \in flags, dotAll |-> "dotAll" \in flags,
     sticky |-> "sticky" \in flags, unicode |-> "unicode" \in flags]
\* `...`: raw text fragments (TemplateElement) interleaved with expressions
TemplateElement(raw) == [type |-> "TemplateElement", rawValue |-> raw]
Template(elements) == [type |-> "TemplateExpression", tag |-> NoNode, elements |-> elements]
IdV(name, var) == [type |-> "IdentifierExpression", name |-> name, var |-> var]
Id(name) == IdV(name, name)
This == [type |-> "ThisExpression"]
Bin(op, l, r) == [type |-> "BinaryExpression", operator |-> op, left |-> l, right |-> r]
Un(op, e) == [type |-> "UnaryExpression", operator |-> op, operand |-> e]
Call(callee, args) == [type |-> "CallExpression", callee |-> callee, arguments |-> args]
Member(o, p) == [type |-> "StaticMemberExpression", object |-> o, property |-> p]
Computed(o, e) == [type |-> "ComputedMemberExpression", object |-> o, expression |-> e]
TargetV(name, var) == [type |-> "AssignmentTargetIdentifier", name |-> name, var |-> var]
Target(name) == TargetV(name, name)
MemberTarget(o, p) == [type |-> "StaticMemberAssignmentTarget", object |-> o, property |-> p]
ComputedTarget(o, e) ==
    [type |-> "ComputedMemberAssignmentTarget", object |-> o, expression |-> e]
Assign(binding, e) == [type |-> "AssignmentExpression", binding |-> binding, expression |-> e]
Compound(op, binding, e) ==
    [type |-> "CompoundAssignmentExpression", operator |-> op, binding |-> binding,
     expression |-> e]
Update(op, isPrefix, operand) ==
    [type |-> "UpdateExpression", operator |-> op, isPrefix |-> isPrefix, operand |-> operand]
Incr(name) == Update("++", FALSE, Target(name))
BindingV(name, var) == [type |-> "BindingIdentifier", name |-> name, var |-> var]
Binding(name) == BindingV(name, name)
BindingWithDefault(binding, init) ==
    [type |-> "BindingWithDefault", binding |-> binding, init |-> init]
FunctionBodyNode(stmts) == [type |-> "FunctionBody", statements |-> stmts]
Arrow(params, body) == [type |-> "ArrowExpression", params |-> [items |-> params], body |-> body]
FunctionExpr(params, stmts) ==
    [type |-> "FunctionExpression", name |-> NoNode, params |-> [items |-> params],
     body |-> FunctionBodyNode(stmts)]
FunctionDecl(name, params, stmts) ==
    [type |-> "FunctionDeclaration", name |-> Binding(name), params |-> [items |-> params],
     body |-> FunctionBodyNode(stmts)]
DataProperty(name, e) ==
    [type |-> "DataProperty", name |-> [type |-> "StaticPropertyName", value |-> name],
     expression |-> e]
MethodProperty(name, params, stmts) ==
    [type |-> "Method", name |-> [type |-> "StaticPropertyName", value |-> name],
     params |-> [items |-> params], body |-> FunctionBodyNode(stmts)]
GetterProperty(name, stmts) ==
    [type |-> "Getter", name |-> [type |-> "StaticPropertyName", value |-> name],
     body |-> FunctionBodyNode(stmts)]
SetterProperty(name, param, stmts) ==
    [type |-> "Setter", name |-> [type |-> "StaticPropertyName", value |-> name],
     param |-> Binding(param), body |-> FunctionBodyNode(stmts)]
ObjectLit(props) == [type |-> "ObjectExpression", properties |-> props]
ArrayLit(elements) == [type |-> "ArrayExpression", elements |-> elements]

ExprStmt(e) == [type |-> "ExpressionStatement", expression |-> e]
Return(e) == [type |-> "ReturnStatement", expression |-> e]
Declarator(binding, init) == [type |-> "VariableDeclarator", binding |-> binding, init |-> init]
VarDeclaration(kind, declarators) ==
    [type |-> "VariableDeclaration", kind |-> kind, declarators |-> declarators]
Declare(kind, name, init) ==
    [type |-> "VariableDeclarationStatement",
     declaration |-> VarDeclaration(kind, <<Declarator(Binding(name), init)>>)]
If(test, consequent, alternate) ==
    [type |-> "IfStatement", test |-> test, consequent |-> consequent, alternate |-> alternate]
BlockNode(stmts) == [type |-> "Block", statements |-> stmts]
BlockStmt(stmts) == [type |-> "BlockStatement", block |-> BlockNode(stmts)]
Break == [type |-> "BreakStatement"]
Continue == [type |-> "ContinueStatement"]
Empty == [type |-> "EmptyStatement"]
Throw(e) == [type |-> "ThrowStatement", expression |-> e]
CatchClause(name, stmts) ==
    [type |-> "CatchClause", binding |-> Binding(name), body |-> BlockNode(stmts)]
TryCatch(body, clause) ==
    [type |-> "TryCatchStatement", body |-> BlockNode(body), catchClause |-> clause]
TryFinally(body, clause, finalizer) ==
    [type |-> "TryFinallyStatement", body |-> BlockNode(body), catchClause |-> clause,
     finalizer |-> BlockNode(finalizer)]
For(init, test, update, body) ==
    [type |-> "ForStatement", init |-> init, test |-> test, update |-> update, body |-> body]
While(test, body) == [type |-> "WhileStatement", test |-> test, body |-> body]
DoWhile(body, test) == [type |-> "DoWhileStatement", body |-> body, test |-> test]
ForIn(left, right, body) ==
    [type |-> "ForInStatement", left |-> left, right |-> right, body |-> body]
ForOf(left, right, body) ==
    [type |-> "ForOfStatement", left |-> left, right |-> right, body |-> body]
ScriptNode(stmts) == [type |-> "Script", statements |-> stmts]

Label(node) == IF "lbl" \in DOMAIN node THEN node.lbl ELSE ""

----------------------------------------------------------------------------
(* The Interpreter instance and its methods.                               *)

\* evaluate() calls one run may make before the model gives it up as diverging
MaxFuel == 400

NaN == [t |-> "number", n |-> 0, s |-> "NaN"]
IsNumber(v) == v.t = "number" /\ v.s = ""

\* new Interpreter(): contexts = [context] with the default context {} (heap
\* object 1), an empty variableMap, no pending signal
Interpreter(skipUnsupported) ==
    [contexts |-> <<Obj(1)>>,
     variableMap |-> EmptyMap,
     skipUnsupported |-> skipUnsupported,
     returning |-> FALSE,
     breaking |-> FALSE,
     continuing |-> FALSE,
     heap |-> <<NewObject>>,
     fns |-> <<>>,
     trace |-> <<>>,
     fuel |-> MaxFuel]

pushContext(st, context) == [st EXCEPT !.contexts = Append(@, context)]

popContext(st) ==
    [st EXCEPT !.contexts = IF Len(@) = 0 THEN @ ELSE SubSeq(@, 1, Len(@) - 1)]

getCurrentContext(st) ==
    IF Len(st.contexts) = 0 THEN Undef ELSE st.contexts[Len(st.contexts)]

skipOrThrow(st, type) ==
    IF st.skipUnsupported THEN Ok(st, Undef) ELSE Thrown(st, Err("InterpreterRuntimeError"))

\* isReturning(state), isBreaking(state), isContinuing(state): set the flag
isReturning(st, state) == [st EXCEPT !.returning = state]
isBreaking(st, state) == [st EXCEPT !.breaking = state]
isContinuing(st, state) == [st EXCEPT !.continuing = state]

updateVariableValue(node, value, st) ==
    Ok([st EXCEPT !.variableMap = Put(@, node.var, value)], value)

\* `name in contexts[i]` and contexts[i][name]; the host raises a TypeError
\* for `in` on a value that is no object
RECURSIVE ContextMember(_, _, _)
RECURSIVE lookupContexts(_, _, _)
lookupContexts(name, i, st) ==
    IF i < 1 THEN Thrown(st, Err("ReferenceError"))
    ELSE LET c == st.contexts[i] IN
         IF c.t /= "object" THEN Thrown(st, Err("TypeError"))
         ELSE IF HasProperty(st.heap[c.n], name) THEN ContextMember(c, name, st)
         ELSE lookupContexts(name, i - 1, st)

\* lookup(identifier-node): the bound value; on unbound, the context stack from
\* the top down; otherwise a reference error
getRuntimeValue(node, st) ==
    IF node.var \in DOMAIN st.variableMap THEN Ok(st, st.variableMap[node.var])
    ELSE lookupContexts(node.name, Len(st.contexts), st)

\* allocate a heap object / an interpreter callable
allocObject(st, o) == Ok([st EXCEPT !.heap = Append(@, o)], Obj(Len(st.heap) + 1))
allocFunction(st, c) == Ok([st EXCEPT !.fns = Append(@, c)], Fn(Len(st.fns) + 1))

\* createFunction(node): an interpreter callable of kind function / method
createFunction(node, st) ==
    allocFunction(st, [kind |-> IF node.type = "Method" THEN "method" ELSE "function",
                      node |-> node, ctx |-> Undef])

----------------------------------------------------------------------------
(* Operator tables.                                                         *)

binaryOperatorMap(op, l, r) ==
    CASE op = "+" -> IF IsNumber(l) /\ IsNumber(r) THEN Num(l.n + r.n)
                     ELSE IF l.t = "string" /\ r.t = "string" THEN Str(l.s \o r.s)
                     ELSE NaN
      [] op = "-" -> IF IsNumber(l) /\ IsNumber(r) THEN Num(l.n - r.n) ELSE NaN
      [] op = "*" -> IF IsNumber(l) /\ IsNumber(r) THEN Num(l.n * r.n) ELSE NaN
      [] op = "===" -> Bool(l = r /\ l /= NaN)
      [] op = "!==" -> Bool(~(l = r /\ l /= NaN))
      [] op = "<" -> Bool(IsNumber(l) /\ IsNumber(r) /\ l.n < r.n)
      [] op = "<=" -> Bool(IsNumber(l) /\ IsNumber(r) /\ l.n <= r.n)
      [] op = ">" -> Bool(IsNumber(l) /\ IsNumber(r) /\ l.n > r.n)
      [] op = ">=" -> Bool(IsNumber(l) /\ IsNumber(r) /\ l.n >= r.n)
      [] op = "," -> r
      [] op = "||" -> IF Truthy(l) THEN l ELSE r
      [] op = "&&" -> IF Truthy(l) THEN r ELSE l

unaryOperatorMap(op, oper) ==
    CASE op = "!" -> Bool(~Truthy(oper))
      [] op = "-" -> IF IsNumber(oper) THEN Num(0 - oper.n) ELSE NaN
      [] op = "+" -> IF IsNumber(oper) THEN oper ELSE NaN
      [] op = "typeof" -> Str(TypeOf(oper))
      [] op = "void" -> Undef

UnaryOperators == {"!", "-", "+", "typeof", "void"}

compoundAssignmentOperatorMap(op, l, r) ==
    CASE op = "+=" -> binaryOperatorMap("+", l, r)
      [] op = "-=" -> binaryOperatorMap("-", l, r)
      [] op = "*=" -> binaryOperatorMap("*", l, r)

----------------------------------------------------------------------------
(* NodeHandler: expressions.                                                *)

RECURSIVE evaluate(_, _)
RECURSIVE callFunction(_, _, _, _)

\* the host invoking the getter or setter `fn` of `object`: the accessor is an
\* interpreter callable, so the host read or write re-enters the interpreter
AccessorCall(fn, object, args) ==
    [type |-> "AccessorCall", fn |-> fn, object |-> object, args |-> args]

LiteralNumericExpression(expr, st) == Ok(st, Num(expr.value))
LiteralStringExpression(expr, st) == Ok(st, Str(expr.value))
LiteralBooleanExpression(expr, st) == Ok(st, Bool(expr.value))
LiteralNullExpression(expr, st) == Ok(st, Null)

\* the flag properties of a host RegExp and the characters that set them
RegExpFlags == <<"global", "ignoreCase", "dotAll", "multiline", "sticky", "unicode">>
RegExpFlagChars == <<"g", "i", "s", "m", "y", "u">>

\* new RegExp(...args) of the host: args[1] is the pattern, args[2] the flag
\* string (here of one character), further arguments are ignored
HostRegExp(args) ==
    LET set(i) == Len(args) >= 2 /\ args[2] = RegExpFlagChars[i]
        flagged[i \in 0..Len(RegExpFlags)] ==
            IF i = 0 THEN SetData(NewObject, "source", Str(args[1]))
            ELSE SetData(flagged[i - 1], RegExpFlags[i], Bool(set(i)))
    IN [flagged[Len(RegExpFlags)] EXCEPT !.kind = "regexp"]

\* the flags array of the handler: one character for each flag set on the
\* literal, in the order g i s m y u, the empty strings filtered out
LiteralFlags(expr) ==
    LET all == <<IF expr.global THEN "g" ELSE "", IF expr.ignoreCase THEN "i" ELSE "",
                 IF expr.dotAll THEN "s" ELSE "", IF expr.multiLine THEN "m" ELSE "",
                 IF expr.sticky THEN "y" ELSE "", IF expr.unicode THEN "u" ELSE "">>
    IN SelectSeq(all, LAMBDA f : f /= "")

\* new RegExp(expr.pattern, ...flags)
LiteralRegExpExpression(expr, st) ==
    allocObject(st, HostRegExp(<<expr.pattern>> \o LiteralFlags(expr)))

DecimalDigits == <<"0", "1", "2", "3", "4", "5", "6", "7", "8", "9">>

\* the decimal numeral of a natural number
RECURSIVE Decimal(_)
Decimal(n) ==
    IF n < Len(DecimalDigits) THEN DecimalDigits[n + 1]
    ELSE Decimal(n \div Len(DecimalDigits)) \o DecimalDigits[(n % Len(DecimalDigits)) + 1]

\* ToString of the host on a value
HostToString(v) ==
    CASE v.t = "string" -> v.s
      [] v.t = "number" -> IF v = NaN THEN "NaN"
                           ELSE IF v.n < 0 THEN "-" \o Decimal(0 - v.n) ELSE Decimal(v.n)
      [] v.t = "boolean" -> IF v.n = 1 THEN "true" ELSE "false"
      [] v.t = "undefined" -> "undefined"
      [] v.t = "null" -> "null"
      [] OTHER -> "[object Object]"

\* Array.prototype.join('') of the host: the elements' strings in order, an
\* undefined or null element giving the empty string
RECURSIVE HostJoin(_)
HostJoin(parts) ==
    IF parts = <<>> THEN ""
    ELSE (IF Head(parts).t \in {"undefined", "null"} THEN "" ELSE HostToString(Head(parts)))
         \o HostJoin(Tail(parts))

\* the loop of TemplateExpression: rawValue of a TemplateElement, the value
\* of any other element
RECURSIVE TemplateParts(_, _, _, _)
TemplateParts(elements, i, parts, st) ==
    IF i > Len(elements) THEN Ok(st, parts)
    ELSE LET el == elements[i] IN
         IF el.type = "TemplateElement"
         THEN TemplateParts(elements, i + 1, Append(parts, Str(el.rawValue)), st)
         ELSE LET value == evaluate(el, st) IN
              IF value.thrown THEN value
              ELSE TemplateParts(elements, i + 1, Append(parts, value.val), value.st)

\* return parts.join('')
TemplateExpression(expr, st) ==
    LET parts == TemplateParts(expr.elements, 1, <<>>, st) IN
    IF parts.thrown THEN parts ELSE Ok(parts.st, Str(HostJoin(parts.val)))

\* the identifier read with the context stack asked before the store
IdentifierExpression_m(expr, st) ==
    LET fromContexts == lookupContexts(expr.name, Len(st.contexts), st) IN
    IF fromContexts.thrown THEN getRuntimeValue(expr, st) ELSE fromContexts

IdentifierExpression(expr, st) == getRuntimeValue(expr, st)

ThisExpression(expr, st) == Ok(st, getCurrentContext(st))

\* the property key of a value used as a computed key
IndexKeys == <<"0", "1", "2", "3", "4", "5", "6", "7", "8", "9">>
PropertyKey(v) ==
    IF v.t = "string" THEN v.s
    ELSE IF IsNumber(v) /\ v.n >= 0 /\ v.n < Len(IndexKeys) THEN IndexKeys[v.n + 1]
    ELSE v.t

\* the element of an array under a property key, the host read of a[key]
ArrayElement(o, property) ==
    IF \E i \in 1..Len(o.elems) : i <= Len(IndexKeys) /\ IndexKeys[i] = property
    THEN o.elems[CHOOSE i \in 1..Len(o.elems) : i <= Len(IndexKeys) /\ IndexKeys[i] = property]
    ELSE IF property = "length" THEN Num(Len(o.elems))
    ELSE Undef

\* the host read object[property]: a TypeError on undefined and null, the
\* getter's result (called on the object) for an accessor property
getMember(object, property, st) ==
    IF object.t \in {"undefined", "null"} THEN Thrown(st, Err("TypeError"))
    ELSE IF object.t /= "object" THEN Ok(st, Undef)
    ELSE LET o == st.heap[object.n] IN
         IF property \in DOMAIN o.get THEN evaluate(AccessorCall(o.get[property], object, <<>>), st)
         ELSE IF property \in DOMAIN o.set THEN Ok(st, Undef)
         ELSE IF property \in DOMAIN o.props THEN Ok(st, o.props[property])
         ELSE IF o.kind = "array" THEN Ok(st, ArrayElement(o, property))
         ELSE Ok(st, Undef)

\* the write as a plain store under the name, whatever the descriptor is
setMember_m(object, property, value, st) ==
    IF object.t /= "object" THEN Thrown(st, Err("TypeError"))
    ELSE Ok([st EXCEPT !.heap[object.n] = SetData(@, property, value)], value)

\* contexts[i][name] of the lookup
ContextMember(context, name, st) == getMember(context, name, st)

\* the host write object[property] = value (strict mode code): the setter
\* (called on the object with the value) for an accessor property
setMember(object, property, value, st) ==
    IF object.t /= "object" THEN Thrown(st, Err("TypeError"))
    ELSE LET o == st.heap[object.n] IN
         IF property \in DOMAIN o.set
         THEN LET r == evaluate(AccessorCall(o.set[property], object, <<value>>), st) IN
              IF r.thrown THEN r ELSE Ok(r.st, value)
         ELSE IF property \in DOMAIN o.get THEN Thrown(st, Err("TypeError"))
         ELSE Ok([st EXCEPT !.heap[object.n] = SetData(@, property, value)], value)

StaticMemberExpression(expr, st) ==
    IF expr.object.type = "Super" THEN skipOrThrow(st, expr.object.type)
    ELSE LET object == evaluate(expr.object, st) IN
         IF object.thrown THEN object
         ELSE getMember(object.val, expr.property, object.st)

ComputedMemberExpression(expr, st) ==
    IF expr.object.type = "Super" THEN skipOrThrow(st, expr.object.type)
    ELSE LET object == evaluate(expr.object, st) IN
         IF object.thrown THEN object
         ELSE LET property == evaluate(expr.expression, object.st) IN
              IF property.thrown THEN property
              ELSE getMember(object.val, PropertyKey(property.val), property.st)

\* the values a spread element inlines: the host iterates the value
SpreadValues(v, st) ==
    IF v.t = "object" /\ st.heap[v.n].kind = "array" THEN Ok(st, st.heap[v.n].elems)
    ELSE Thrown(st, Err("TypeError"))

\* the argument loop of CallExpression and NewExpression; val is the list
RECURSIVE evaluateArguments(_, _, _, _)
evaluateArguments(arguments, i, args, st) ==
    IF i > Len(arguments) THEN Ok(st, args)
    ELSE LET arg == arguments[i] IN
         IF arg.type = "SpreadElement"
         THEN LET value == evaluate(arg.expression, st) IN
              IF value.thrown THEN value
              ELSE LET items == SpreadValues(value.val, value.st) IN
                   IF items.thrown THEN items
                   ELSE evaluateArguments(arguments, i + 1, args \o items.val, items.st)
         ELSE LET value == evaluate(arg, st) IN
              IF value.thrown THEN value
              ELSE evaluateArguments(arguments, i + 1, Append(args, value.val), value.st)

IsCallable(fn) == TypeOf(fn) = "function"

\* the call applied to the current context whatever the callee is
CallExpressionApply_m(fn, context, args, st) ==
    IF IsCallable(fn) THEN callFunction(fn, getCurrentContext(st), args, st)
    ELSE Ok(st, Undef)

\* the end of CallExpression: typeof fn === 'function' ? fn.apply(context, args)
\* : a TypeError that is constructed and dropped
CallExpressionApply(fn, context, args, st) ==
    IF IsCallable(fn) THEN callFunction(fn, context, args, st)
    ELSE Ok(st, Undef)

CallExpression(expr, st) ==
    IF expr.callee.type = "Super" THEN skipOrThrow(st, expr.callee.type)
    ELSE LET args == evaluateArguments(expr.arguments, 1, <<>>, st) IN
         IF args.thrown THEN args
         ELSE IF expr.callee.type = "StaticMemberExpression"
         THEN LET context == evaluate(expr.callee.object, args.st) IN
              IF context.thrown THEN context
              ELSE LET fn == getMember(context.val, expr.callee.property, context.st) IN
                   IF fn.thrown THEN fn
                   ELSE CallExpressionApply(fn.val, context.val, args.val, fn.st)
         ELSE IF expr.callee.type = "ComputedMemberExpression"
         THEN LET context == evaluate(expr.callee.object, args.st) IN
              IF context.thrown THEN context
              ELSE LET computedProperty == evaluate(expr.callee.expression, context.st) IN
                   IF computedProperty.thrown THEN computedProperty
                   ELSE LET fn == getMember(context.val, PropertyKey(computedProperty.val),
                                            computedProperty.st) IN
                        IF fn.thrown THEN fn
                        ELSE CallExpressionApply(fn.val, context.val, args.val, fn.st)
         ELSE LET fn == evaluate(expr.callee, args.st) IN
              IF fn.thrown THEN fn
              ELSE CallExpressionApply(fn.val, getCurrentContext(args.st), args.val, fn.st)

AssignmentExpression(expr, st) ==
    CASE expr.binding.type = "AssignmentTargetIdentifier" ->
           LET value == evaluate(expr.expression, st) IN
           IF value.thrown THEN value
           ELSE updateVariableValue(expr.binding, value.val, value.st)
      [] expr.binding.type = "ComputedMemberAssignmentTarget" ->
           LET object == evaluate(expr.binding.object, st) IN
           IF object.thrown THEN object
           ELSE LET property == evaluate(expr.binding.expression, object.st) IN
                IF property.thrown THEN property
                ELSE LET value == evaluate(expr.expression, property.st) IN
                     IF value.thrown THEN value
                     ELSE setMember(object.val, PropertyKey(property.val), value.val, value.st)
      [] expr.binding.type = "StaticMemberAssignmentTarget" ->
           LET object == evaluate(expr.binding.object, st) IN
           IF object.thrown THEN object
           ELSE LET value == evaluate(expr.expression, object.st) IN
                IF value.thrown THEN value
                ELSE setMember(object.val, expr.binding.property, value.val, value.st)
      [] OTHER -> skipOrThrow(st, expr.binding.type)

\* currentValue + 1 / currentValue - 1 of the host
NextValue(operator, currentValue) ==
    IF ~IsNumber(currentValue) THEN NaN
    ELSE IF operator = "++" THEN Num(currentValue.n + 1) ELSE Num(currentValue.n - 1)

UpdateExpression(expr, st) ==
    CASE expr.operand.type = "AssignmentTargetIdentifier" ->
           LET currentValue == getRuntimeValue(expr.operand, st) IN
           IF currentValue.thrown THEN currentValue
           ELSE LET nextValue == NextValue(expr.operator, currentValue.val)
                    u == updateVariableValue(expr.operand, nextValue, currentValue.st)
                IN Ok(u.st, IF expr.isPrefix THEN nextValue ELSE currentValue.val)
      [] expr.operand.type = "StaticMemberAssignmentTarget" ->
           LET object == evaluate(expr.operand.object, st) IN
           IF object.thrown THEN object
           ELSE LET currentValue == getMember(object.val, expr.operand.property, object.st) IN
                IF currentValue.thrown THEN currentValue
                ELSE LET nextValue == NextValue(expr.operator, currentValue.val)
                         u == setMember(object.val, expr.operand.property, nextValue,
                                        currentValue.st)
                     IN IF u.thrown THEN u
                        ELSE Ok(u.st, IF expr.isPrefix THEN nextValue ELSE currentValue.val)
      [] OTHER -> Ok(st, Undef)

CompoundAssignmentExpression(expr, st) ==
    CASE expr.binding.type = "AssignmentTargetIdentifier" ->
           LET currentValue == getRuntimeValue(expr.binding, st) IN
           IF currentValue.thrown THEN currentValue
           ELSE LET newValue == evaluate(expr.expression, currentValue.st) IN
                IF newValue.thrown THEN newValue
                ELSE updateVariableValue(
                         expr.binding,
                         compoundAssignmentOperatorMap(expr.operator, currentValue.val,
                                                       newValue.val),
                         newValue.st)
      [] expr.binding.type = "StaticMemberAssignmentTarget" ->
           LET object == evaluate(expr.binding.object, st) IN
           IF object.thrown THEN object
           ELSE LET currentValue == getMember(object.val, expr.binding.property, object.st) IN
                IF currentValue.thrown THEN currentValue
                ELSE LET newValue == evaluate(expr.expression, currentValue.st) IN
                     IF newValue.thrown THEN newValue
                     ELSE setMember(object.val, expr.binding.property,
                                    compoundAssignmentOperatorMap(
                                        expr.operator, currentValue.val, newValue.val),
                                    newValue.st)
      [] OTHER -> Ok(st, Undef)

\* the operators module: operation(left, deferredRight).  && || and , decide
\* whether to force the thunk; every other operator forces it at once
binaryOperation(operator, left, deferredRight, st) ==
    IF operator = "&&" /\ ~Truthy(left) THEN Ok(st, left)
    ELSE IF operator = "||" /\ Truthy(left) THEN Ok(st, left)
    ELSE LET right == evaluate(deferredRight, st) IN
         IF right.thrown THEN right
         ELSE Ok(right.st, binaryOperatorMap(operator, left, right.val))

\* BinaryExpression with the right operand evaluated at once
BinaryExpression_m(expr, st) ==
    LET left == evaluate(expr.left, st) IN
    IF left.thrown THEN left
    ELSE LET right == evaluate(expr.right, left.st) IN
         IF right.thrown THEN right
         ELSE IF expr.operator = "&&" /\ ~Truthy(left.val) THEN Ok(right.st, left.val)
         ELSE IF expr.operator = "||" /\ Truthy(left.val) THEN Ok(right.st, left.val)
         ELSE Ok(right.st, binaryOperatorMap(expr.operator, left.val, right.val))


BinaryExpression(expr, st) ==
    LET left == evaluate(expr.left, st) IN
    IF left.thrown THEN left
    ELSE binaryOperation(expr.operator, left.val, expr.right, left.st)

\* UnaryExpression without the catch of the ReferenceError
UnaryExpression_m(expr, st) ==
    IF expr.operator \notin UnaryOperators
    THEN skipOrThrow(st, expr.type)
    ELSE LET operand == evaluate(expr.operand, st) IN
         IF ~operand.thrown THEN Ok(operand.st, unaryOperatorMap(expr.operator, operand.val))
         ELSE operand


UnaryExpression(expr, st) ==
    IF expr.operator \notin UnaryOperators
    THEN skipOrThrow(st, expr.type)
    ELSE LET operand == evaluate(expr.operand, st) IN
         IF ~operand.thrown THEN Ok(operand.st, unaryOperatorMap(expr.operator, operand.val))
         ELSE IF operand.val = Err("ReferenceError") /\ expr.operator = "typeof"
                 /\ expr.operand.type = "IdentifierExpression"
         THEN Ok(operand.st, Str("undefined"))
         ELSE operand

ConditionalExpression(stmt, st) ==
    LET test == evaluate(stmt.test, st) IN
    IF test.thrown THEN test
    ELSE IF Truthy(test.val) THEN evaluate(stmt.consequent, test.st)
    ELSE IF stmt.alternate.type /= "null" THEN evaluate(stmt.alternate, test.st)
    ELSE Ok(test.st, Undef)

\* the arrow callable closes over the context current where it is evaluated
ArrowExpression(expr, st) ==
    allocFunction(st, [kind |-> "arrow", node |-> expr, ctx |-> getCurrentContext(st)])

FunctionExpression(expr, st) == createFunction(expr, st)

\* the data properties and methods of an object literal, in source order;
\* getters and setters are collected in ops and installed after the pass
RECURSIVE ObjectProperties(_, _, _, _, _)
ObjectProperties(properties, i, obj, ops, st) ==
    IF i > Len(properties) THEN Ok(st, [obj |-> obj, ops |-> ops])
    ELSE LET prop == properties[i] IN
         CASE prop.type = "DataProperty" ->
                LET value == evaluate(prop.expression, st) IN
                IF value.thrown THEN value
                ELSE ObjectProperties(properties, i + 1,
                                      SetData(obj, prop.name.value, value.val), ops, value.st)
           [] prop.type = "Method" ->
                LET fn == createFunction(prop, st) IN
                ObjectProperties(properties, i + 1, SetData(obj, prop.name.value, fn.val),
                                 ops, fn.st)
           [] prop.type = "ShorthandProperty" ->
                LET value == getRuntimeValue(prop.name, st) IN
                IF value.thrown THEN value
                ELSE ObjectProperties(properties, i + 1,
                                      SetData(obj, prop.name.name, value.val), ops, value.st)
           [] prop.type = "Getter" ->
                LET fn == createFunction(prop, st) IN
                ObjectProperties(properties, i + 1, obj,
                                 [ops EXCEPT !.get = Put(@, prop.name.value, fn.val)], fn.st)
           [] prop.type = "Setter" ->
                LET fn == createFunction(prop, st) IN
                ObjectProperties(properties, i + 1, obj,
                                 [ops EXCEPT !.set = Put(@, prop.name.value, fn.val)], fn.st)
           [] OTHER ->
                LET r == skipOrThrow(st, prop.type) IN
                IF r.thrown THEN r ELSE ObjectProperties(properties, i + 1, obj, ops, r.st)

\* Object.defineProperty(obj, prop, {get, set, configurable: true}) for every
\* name of ops: the property becomes a (non-enumerable) accessor property
DefineAccessors(obj, ops) ==
    LET names == DOMAIN ops.get \cup DOMAIN ops.set IN
    [obj EXCEPT
       !.keys = SelectSeq(@, LAMBDA k : k \notin names),
       !.props = [k \in DOMAIN @ \ names |-> @[k]],
       !.get = [k \in (DOMAIN @ \ names) \cup DOMAIN ops.get |->
                   IF k \in DOMAIN ops.get THEN ops.get[k] ELSE @[k]],
       !.set = [k \in (DOMAIN @ \ names) \cup DOMAIN ops.set |->
                   IF k \in DOMAIN ops.set THEN ops.set[k] ELSE @[k]]]

ObjectExpression(expr, st) ==
    LET r == ObjectProperties(expr.properties, 1, NewObject,
                              [get |-> EmptyMap, set |-> EmptyMap], st) IN
    IF r.thrown THEN r
    ELSE allocObject(r.st, DefineAccessors(r.val.obj, r.val.ops))

RECURSIVE ArrayElements(_, _, _, _)
ArrayElements(elements, i, acc, st) ==
    IF i > Len(elements) THEN Ok(st, acc)
    ELSE LET el == elements[i] IN
         IF el.type = "null" THEN ArrayElements(elements, i + 1, Append(acc, Null), st)
         ELSE IF el.type = "SpreadElement"
         THEN LET iterable == evaluate(el.expression, st) IN
              IF iterable.thrown THEN iterable
              ELSE LET items == SpreadValues(iterable.val, iterable.st) IN
                   IF items.thrown THEN items
                   ELSE ArrayElements(elements, i + 1, acc \o items.val, items.st)
         ELSE LET value == evaluate(el, st) IN
              IF value.thrown THEN value
              ELSE ArrayElements(elements, i + 1, Append(acc, value.val), value.st)

ArrayExpression(expr, st) ==
    LET r == ArrayElements(expr.elements, 1, <<>>, st) IN
    IF r.thrown THEN r ELSE allocObject(r.st, NewArray(r.val))

----------------------------------------------------------------------------
(* Bindings.                                                                *)

\* bindVariable(binding, value): declare the binding's variable with the
\* value; a binding with a default takes the default's value for undefined
RECURSIVE bindVariable(_, _, _)
bindVariable(binding, value, st) ==
    CASE binding.type = "BindingIdentifier" ->
           Ok([st EXCEPT !.variableMap = Put(@, binding.var, value)], value)
      [] binding.type = "BindingWithDefault" ->
           IF value = Undef
           THEN LET init == evaluate(binding.init, st) IN
                IF init.thrown THEN init ELSE bindVariable(binding.binding, init.val, init.st)
           ELSE bindVariable(binding.binding, value, st)
      [] OTHER -> skipOrThrow(st, binding.type)

VariableDeclarator(declarator, st) ==
    LET value == evaluate(declarator.init, st) IN
    IF value.thrown THEN value
    ELSE bindVariable(declarator.binding, value.val, value.st)

\* declareVariables(decl): every declarator, in order
RECURSIVE declareVariablesFrom(_, _, _)
declareVariablesFrom(declarators, i, st) ==
    IF i > Len(declarators) THEN Ok(st, Undef)
    ELSE LET r == evaluate(declarators[i], st) IN
         IF r.thrown THEN r ELSE declareVariablesFrom(declarators, i + 1, r.st)

declareVariables(decl, st) == declareVariablesFrom(decl.declarators, 1, st)

VariableDeclarationStatement(stmt, st) == declareVariables(stmt.declaration, st)

FunctionDeclaration(decl, st) ==
    LET fn == createFunction(decl, st) IN
    Ok([fn.st EXCEPT !.variableMap = Put(@, decl.name.var, fn.val)], Undef)

\* hoistFunctions(block): bind every function declaration of the block
RECURSIVE hoistFunctionsFrom(_, _, _)
hoistFunctionsFrom(statements, i, st) ==
    IF i > Len(statements) THEN st
    ELSE hoistFunctionsFrom(statements, i + 1,
             IF statements[i].type = "FunctionDeclaration"
             THEN FunctionDeclaration(statements[i], st).st
             ELSE st)

hoistFunctions(block, st) == hoistFunctionsFrom(block.statements, 1, st)

\* hoistVars(block): pre-declare every var of the block to undefined
RECURSIVE hoistDeclarators(_, _, _)
hoistDeclarators(declarators, i, st) ==
    IF i > Len(declarators) THEN st
    ELSE hoistDeclarators(declarators, i + 1,
             IF declarators[i].binding.type = "BindingIdentifier"
             THEN [st EXCEPT !.variableMap = Put(@, declarators[i].binding.var, Undef)]
             ELSE st)

RECURSIVE hoistVarsFrom(_, _, _)
hoistVarsFrom(statements, i, st) ==
    IF i > Len(statements) THEN st
    ELSE hoistVarsFrom(statements, i + 1,
             IF statements[i].type = "VariableDeclarationStatement"
                /\ statements[i].declaration.kind = "var"
             THEN hoistDeclarators(statements[i].declaration.declarators, 1, st)
             ELSE st)

hoistVars(block, st) == hoistVarsFrom(block.statements, 1, st)

\* block.statements.filter(stmt => stmt.type !== 'FunctionDeclaration')
NotFunctionDeclarations(statements) ==
    SelectSeq(statements, LAMBDA stmt : stmt.type /= "FunctionDeclaration")

----------------------------------------------------------------------------
(* NodeHandler: statements.                                                 *)

ReturnStatement(stmt, st) ==
    LET value == evaluate(stmt.expression, st) IN
    IF value.thrown THEN value ELSE Ok(isReturning(value.st, TRUE), value.val)

ExpressionStatement(stmt, st) == evaluate(stmt.expression, st)

BlockStatement(stmt, st) == evaluate(stmt.block, st)

IfStatement(stmt, st) ==
    LET test == evaluate(stmt.test, st) IN
    IF test.thrown THEN test
    ELSE IF Truthy(test.val) THEN evaluate(stmt.consequent, test.st)
    ELSE IF stmt.alternate.type /= "null" THEN evaluate(stmt.alternate, test.st)
    ELSE Ok(test.st, Undef)

ThrowStatement(stmt, st) ==
    LET error == evaluate(stmt.expression, st) IN
    IF error.thrown THEN error ELSE Thrown(error.st, error.val)

\* the catch handler shared by try/catch and try/catch/finally: bind the
\* thrown value, evaluate the catch body, rethrow what that throws
CatchBlock(stmt, e, st) ==
    LET bound == bindVariable(stmt.catchClause.binding, e, st) IN
    IF bound.thrown THEN bound ELSE evaluate(stmt.catchClause.body, bound.st)

\* TryCatchStatement handing the handler a converted error instead of the
\* thrown value
TryCatchStatement_m(stmt, st) ==
    LET returnValue == evaluate(stmt.body, st) IN
    IF returnValue.thrown /\ returnValue.val /= Diverged
    THEN CatchBlock(stmt, Err("Error"), returnValue.st)
    ELSE returnValue

TryCatchStatement(stmt, st) ==
    LET returnValue == evaluate(stmt.body, st) IN
    IF returnValue.thrown /\ returnValue.val /= Diverged
    THEN CatchBlock(stmt, returnValue.val, returnValue.st)
    ELSE returnValue

\* the finalizer's normal completion keeping the value of `before`
Finally_m(stmt, before) ==
    IF before.thrown /\ before.val = Diverged THEN before
    ELSE LET returnValue == evaluate(stmt.finalizer, before.st) IN
         IF returnValue.thrown THEN returnValue
         ELSE IF before.thrown THEN Thrown(returnValue.st, before.val)
         ELSE Ok(returnValue.st, before.val)

\* try { ... } finally { returnValue = evaluate(finalizer) } of the host: the
\* finalizer runs after `before` however that completed; if the finalizer
\* throws, its exception replaces the completion; else an exception of
\* `before` goes on, and a normal completion yields the finalizer's value
Finally(stmt, before) ==
    IF before.thrown /\ before.val = Diverged THEN before
    ELSE LET returnValue == evaluate(stmt.finalizer, before.st) IN
         IF returnValue.thrown THEN returnValue
         ELSE IF before.thrown THEN Thrown(returnValue.st, before.val)
         ELSE returnValue

\* TryFinallyStatement with the finalizer as a statement after the try, not
\* in a finally: an exception leaving the try skips it
TryFinallyStatement_m(stmt, st) ==
    LET before == IF stmt.catchClause.type /= "null" THEN TryCatchStatement(stmt, st)
                  ELSE evaluate(stmt.body, st)
    IN IF before.thrown THEN before ELSE evaluate(stmt.finalizer, before.st)


TryFinallyStatement(stmt, st) ==
    IF stmt.catchClause.type /= "null"
    THEN Finally(stmt, TryCatchStatement(stmt, st))
    ELSE Finally(stmt, evaluate(stmt.body, st))

\* the statement loop of Block and Script: no signal is looked at
RECURSIVE BlockStatements(_, _, _, _)
BlockStatements(statements, i, value, st) ==
    IF i > Len(statements) THEN Ok(st, value)
    ELSE LET r == evaluate(statements[i], st) IN
         IF r.thrown THEN r ELSE BlockStatements(statements, i + 1, r.val, r.st)

\* Block without the hoisting passes: every statement in order
Block_m(block, st) == BlockStatements(block.statements, 1, Undef, st)

Block(block, st) ==
    BlockStatements(NotFunctionDeclarations(block.statements), 1, Undef,
                    hoistVars(block, hoistFunctions(block, st)))

\* the statement loop of FunctionBody: stops once the returning flag is set
RECURSIVE FunctionBodyStatements(_, _, _, _)
FunctionBodyStatements(statements, i, value, st) ==
    IF i > Len(statements) THEN Ok(st, value)
    ELSE LET r == evaluate(statements[i], st) IN
         IF r.thrown THEN r
         ELSE IF r.st.returning THEN Ok(r.st, r.val)
         ELSE FunctionBodyStatements(statements, i + 1, r.val, r.st)

FunctionBody(body, st) ==
    FunctionBodyStatements(NotFunctionDeclarations(body.statements), 1, Undef,
                           hoistVars(body, hoistFunctions(body, st)))

Script(body, st) ==
    BlockStatements(NotFunctionDeclarations(body.statements), 1, Undef,
                    hoistVars(body, hoistFunctions(body, st)))

BreakStatement(stmt, st) == Ok(isBreaking(st, TRUE), Undef)
ContinueStatement(stmt, st) == Ok(isContinuing(st, TRUE), Undef)
EmptyStatement(stmt, st) == Ok(st, Undef)

----------------------------------------------------------------------------
(* NodeHandler: loops.                                                      *)

\* the statement loop of loopBlock: stops after a statement that leaves
\* breaking or continuing set
RECURSIVE loopBlockStatements(_, _, _)
loopBlockStatements(statements, i, st) ==
    IF i > Len(statements) THEN Ok(st, Undef)
    ELSE LET r == evaluate(statements[i], st) IN
         IF r.thrown THEN r
         ELSE IF r.st.breaking THEN Ok(r.st, Undef)
         ELSE IF r.st.continuing THEN Ok(r.st, Undef)
         ELSE loopBlockStatements(statements, i + 1, r.st)

loopBlock(stmt, st) ==
    IF stmt.body.type = "BlockStatement"
    THEN loopBlockStatements(NotFunctionDeclarations(stmt.body.block.statements), 1,
                             hoistVars(stmt.body.block, hoistFunctions(stmt.body.block, st)))
    ELSE loopBlockStatements(<<stmt.body>>, 1, st)

\* while (evaluate(test)) { loopBlock; break?; update; continue? }
RECURSIVE ForStatementLoop(_, _)
\* the update evaluated before the breaking flag is looked at
ForStatementLoop_m(stmt, st) ==
    LET test == evaluate(stmt.test, st) IN
    IF test.thrown THEN test
    ELSE IF ~Truthy(test.val) THEN Ok(test.st, Undef)
    ELSE LET body == loopBlock(stmt, test.st) IN
         IF body.thrown THEN body
         ELSE LET update == IF stmt.update.type /= "null"
                            THEN evaluate(stmt.update, body.st)
                            ELSE Ok(body.st, Undef) IN
              IF update.thrown THEN update
              ELSE IF update.st.breaking THEN Ok(isBreaking(update.st, FALSE), Undef)
              ELSE IF update.st.continuing
              THEN ForStatementLoop(stmt, isContinuing(update.st, FALSE))
              ELSE ForStatementLoop(stmt, update.st)

ForStatementLoop(stmt, st) ==
    LET test == evaluate(stmt.test, st) IN
    IF test.thrown THEN test
    ELSE IF ~Truthy(test.val) THEN Ok(test.st, Undef)
    ELSE LET body == loopBlock(stmt, test.st) IN
         IF body.thrown THEN body
         ELSE IF body.st.breaking THEN Ok(isBreaking(body.st, FALSE), Undef)
         ELSE LET update == IF stmt.update.type /= "null"
                            THEN evaluate(stmt.update, body.st)
                            ELSE Ok(body.st, Undef) IN
              IF update.thrown THEN update
              ELSE IF update.st.continuing
              THEN ForStatementLoop(stmt, isContinuing(update.st, FALSE))
              ELSE ForStatementLoop(stmt, update.st)

ForStatement(stmt, st) ==
    LET init == IF stmt.init.type = "null" THEN Ok(st, Undef)
                ELSE IF stmt.init.type = "VariableDeclaration"
                THEN declareVariables(stmt.init, st)
                ELSE evaluate(stmt.init, st) IN
    IF init.thrown THEN init ELSE ForStatementLoop(stmt, init.st)

\* after loopBlock in while, do-while, for-in and for-of: continuing is
\* looked at first (clear, next iteration), then breaking (clear, leave)
RECURSIVE WhileStatement(_, _)
WhileStatement(stmt, st) ==
    LET test == evaluate(stmt.test, st) IN
    IF test.thrown THEN test
    ELSE IF ~Truthy(test.val) THEN Ok(test.st, Undef)
    ELSE LET body == loopBlock(stmt, test.st) IN
         IF body.thrown THEN body
         ELSE IF body.st.continuing THEN WhileStatement(stmt, isContinuing(body.st, FALSE))
         ELSE IF body.st.breaking THEN Ok(isBreaking(body.st, FALSE), Undef)
         ELSE WhileStatement(stmt, body.st)

RECURSIVE DoWhileStatement(_, _)
DoWhileStatement(stmt, st) ==
    LET body == loopBlock(stmt, st) IN
    IF body.thrown THEN body
    ELSE IF ~body.st.continuing /\ body.st.breaking
    THEN Ok(isBreaking(body.st, FALSE), Undef)
    ELSE LET test == evaluate(stmt.test,
                              IF body.st.continuing THEN isContinuing(body.st, FALSE)
                              ELSE body.st) IN
         IF test.thrown THEN test
         ELSE IF Truthy(test.val) THEN DoWhileStatement(stmt, test.st)
         ELSE Ok(test.st, Undef)

\* the keys a host for-in visits
RECURSIVE Indices(_)
Indices(n) == IF n = 0 THEN <<>> ELSE Append(Indices(n - 1), IndexKeys[n])

EnumerableKeys(v, st) ==
    IF v.t /= "object" THEN <<>>
    ELSE IF st.heap[v.n].kind = "array" THEN Indices(Len(st.heap[v.n].elems))
    ELSE st.heap[v.n].keys

\* the iterations of for-in / for-of over the values `items`, from the i-th:
\* bind the loop variable, loopBlock, continue?, break?
RECURSIVE ForEachLoop(_, _, _, _)
ForEachLoop(stmt, items, i, st) ==
    IF i > Len(items) THEN Ok(st, Undef)
    ELSE LET declared == IF stmt.type = "ForOfStatement" /\ stmt.left.type = "VariableDeclaration"
                         THEN declareVariables(stmt.left, st)
                         ELSE Ok(st, Undef)
             bound == IF declared.thrown THEN declared
                      ELSE IF stmt.left.type = "VariableDeclaration"
                      THEN IF stmt.left.declarators[1].binding.type = "BindingIdentifier"
                           THEN updateVariableValue(stmt.left.declarators[1].binding, items[i],
                                                    declared.st)
                           ELSE skipOrThrow(declared.st, stmt.type)
                      ELSE IF stmt.type = "ForInStatement"
                      THEN updateVariableValue(stmt.left, items[i], declared.st)
                      ELSE skipOrThrow(declared.st, stmt.type)
         IN IF bound.thrown THEN bound
            ELSE LET body == loopBlock(stmt, bound.st) IN
                 IF body.thrown THEN body
                 ELSE IF body.st.continuing
                 THEN ForEachLoop(stmt, items, i + 1, isContinuing(body.st, FALSE))
                 ELSE IF body.st.breaking THEN Ok(isBreaking(body.st, FALSE), Undef)
                 ELSE ForEachLoop(stmt, items, i + 1, body.st)

ForOfStatement(stmt, st) ==
    LET iterationExpression == evaluate(stmt.right, st) IN
    IF iterationExpression.thrown THEN iterationExpression
    ELSE LET items == SpreadValues(iterationExpression.val, iterationExpression.st) IN
         IF items.thrown THEN items
         ELSE ForEachLoop(stmt, items.val, 1, items.st)

ForInStatement(stmt, st) ==
    LET iterationExpression == evaluate(stmt.right, st) IN
    IF iterationExpression.thrown THEN iterationExpression
    ELSE IF stmt.left.type = "VariableDeclaration"
    THEN LET declared == declareVariables(stmt.left, iterationExpression.st) IN
         IF declared.thrown THEN declared
         ELSE ForEachLoop(stmt, [i \in 1..Len(EnumerableKeys(iterationExpression.val, declared.st))
                                   |-> Str(EnumerableKeys(iterationExpression.val, declared.st)[i])],
                          1, declared.st)
    ELSE IF stmt.left.type = "AssignmentTargetIdentifier"
    THEN ForEachLoop(stmt, [i \in 1..Len(EnumerableKeys(iterationExpression.val,
                                                         iterationExpression.st))
                              |-> Str(EnumerableKeys(iterationExpression.val,
                                                     iterationExpression.st)[i])],
                     1, iterationExpression.st)
    ELSE skipOrThrow(iterationExpression.st, stmt.type)

----------------------------------------------------------------------------
(* Callables.                                                               *)

\* args[i] of the host: undefined past the end of the list
Arg(args, i) == IF i <= Len(args) THEN args[i] ELSE Undef

\* for (i...) interpreter.bindVariable(params.items[i], args[i])
RECURSIVE bindParameters(_, _, _, _)
bindParameters(items, args, i, st) ==
    IF i > Len(items) THEN Ok(st, Undef)
    ELSE LET r == bindVariable(items[i], Arg(args, i), st) IN
         IF r.thrown THEN r ELSE bindParameters(items, args, i + 1, r.st)

\* arrowFn with `this` taken from the callsite instead of the creation site
arrowFn_m(c, args, st) ==
    LET bound == bindParameters(c.node.params.items, args, 1,
                                pushContext(st, getCurrentContext(st))) IN
    IF bound.thrown THEN bound
    ELSE LET returnValue == evaluate(c.node.body, bound.st) IN
         IF returnValue.thrown THEN returnValue
         ELSE Ok(popContext(returnValue.st), returnValue.val)

\* the arrow callable built by ArrowExpression, called with args: `this` is
\* the context captured at creation, whatever receiver the call site passes
arrowFn(c, args, st) ==
    LET bound == bindParameters(c.node.params.items, args, 1, pushContext(st, c.ctx)) IN
    IF bound.thrown THEN bound
    ELSE LET returnValue == evaluate(c.node.body, bound.st) IN
         IF returnValue.thrown THEN returnValue
         ELSE Ok(popContext(returnValue.st), returnValue.val)

\* the formal parameters of a function node: none for a getter, the one
\* param of a setter
Parameters(node) ==
    CASE node.type = "Getter" -> <<>>
      [] node.type = "Setter" -> <<node.param>>
      [] OTHER -> node.params.items

\* the callable built by createFunction, called on a receiver with args:
\* push the receiver, bind the parameters, reset returning, evaluate the
\* body, pop the context (on abrupt exit too), clear returning; the value
\* is the body's when a return signal fired, undefined if no return
interpreterFunction(c, receiver, args, st) ==
    LET bound == bindParameters(Parameters(c.node), args, 1, pushContext(st, receiver)) IN
    IF bound.thrown THEN Thrown(popContext(bound.st), bound.val)
    ELSE LET returnValue == evaluate(c.node.body, isReturning(bound.st, FALSE)) IN
         IF returnValue.thrown THEN Thrown(popContext(returnValue.st), returnValue.val)
         ELSE Ok(isReturning(popContext(returnValue.st), FALSE),
                 IF returnValue.st.returning THEN returnValue.val ELSE Undef)

\* a host callable of the ambient context
hostFunction(name, context, args, st) ==
    CASE name = "hostThis" -> Ok(st, context)
      [] name = "hostArg" -> Ok(st, Arg(args, 1))
      [] OTHER -> Ok(st, Undef)

\* fn.apply(context, args)
callFunction(fn, context, args, st) ==
    IF fn.t = "host" THEN hostFunction(fn.s, context, args, st)
    ELSE IF st.fns[fn.n].kind = "arrow" THEN arrowFn(st.fns[fn.n], args, st)
    ELSE interpreterFunction(st.fns[fn.n], context, args, st)

----------------------------------------------------------------------------
(* Interpreter.evaluate: the dispatch to the handler of the node's kind.   *)

UnsupportedNodes ==
    {"WithStatement", "SwitchStatementWithDefault", "SwitchStatement", "LabeledStatement",
     "ForAwaitStatement", "NewTargetExpression", "AwaitExpression", "Super",
     "ClassExpression", "YieldExpression", "YieldGeneratorExpression"}

\* the handlers that end `throw new InterpreterRuntimeError(...)`
Unsupported(node, st) == Thrown(st, Err("InterpreterRuntimeError"))

handle(node, st) ==
    CASE node.type = "ReturnStatement" -> ReturnStatement(node, st)
      [] node.type = "ExpressionStatement" -> ExpressionStatement(node, st)
      [] node.type = "VariableDeclarationStatement" -> VariableDeclarationStatement(node, st)
      [] node.type = "VariableDeclarator" -> VariableDeclarator(node, st)
      [] node.type = "FunctionDeclaration" -> FunctionDeclaration(node, st)
      [] node.type = "BlockStatement" -> BlockStatement(node, st)
      [] node.type = "IfStatement" -> IfStatement(node, st)
      [] node.type = "ConditionalExpression" -> ConditionalExpression(node, st)
      [] node.type = "ThrowStatement" -> ThrowStatement(node, st)
      [] node.type = "TryCatchStatement" -> TryCatchStatement(node, st)
      [] node.type = "TryFinallyStatement" -> TryFinallyStatement(node, st)
      [] node.type = "Block" -> Block(node, st)
      [] node.type = "FunctionBody" -> FunctionBody(node, st)
      [] node.type = "Script" -> Script(node, st)
      [] node.type = "ForOfStatement" -> ForOfStatement(node, st)
      [] node.type = "ForInStatement" -> ForInStatement(node, st)
      [] node.type = "ForStatement" -> ForStatement(node, st)
      [] node.type = "WhileStatement" -> WhileStatement(node, st)
      [] node.type = "DoWhileStatement" -> DoWhileStatement(node, st)
      [] node.type = "ThisExpression" -> ThisExpression(node, st)
      [] node.type = "ArrayExpression" -> ArrayExpression(node, st)
      [] node.type = "ObjectExpression" -> ObjectExpression(node, st)
      [] node.type = "StaticMemberExpression" -> StaticMemberExpression(node, st)
      [] node.type = "ComputedMemberExpression" -> ComputedMemberExpression(node, st)
      [] node.type = "CallExpression" -> CallExpression(node, st)
      [] node.type = "AssignmentExpression" -> AssignmentExpression(node, st)
      [] node.type = "UpdateExpression" -> UpdateExpression(node, st)
      [] node.type = "CompoundAssignmentExpression" -> CompoundAssignmentExpression(node, st)
      [] node.type = "ArrowExpression" -> ArrowExpression(node, st)
      [] node.type = "FunctionExpression" -> FunctionExpression(node, st)
      [] node.type = "IdentifierExpression" -> IdentifierExpression(node, st)
      [] node.type = "LiteralNumericExpression" -> LiteralNumericExpression(node, st)
      [] node.type = "LiteralStringExpression" -> LiteralStringExpression(node, st)
      [] node.type = "LiteralBooleanExpression" -> LiteralBooleanExpression(node, st)
      [] node.type = "LiteralNullExpression" -> LiteralNullExpression(node, st)
      [] node.type = "LiteralRegExpExpression" -> LiteralRegExpExpression(node, st)
      [] node.type = "TemplateExpression" -> TemplateExpression(node, st)
      [] node.type = "BinaryExpression" -> BinaryExpression(node, st)
      [] node.type = "UnaryExpression" -> UnaryExpression(node, st)
      [] node.type = "BreakStatement" -> BreakStatement(node, st)
      [] node.type = "ContinueStatement" -> ContinueStatement(node, st)
      [] node.type = "EmptyStatement" -> EmptyStatement(node, st)
      [] OTHER -> Unsupported(node, st)

\* evaluate(node): undefined for a null child, else the node's handler.  The
\* model counts the calls (fuel) and logs the labels of the nodes visited.
\* An accessor the host invokes comes in here as an AccessorCall: it is no
\* node, it goes to callFunction and is neither counted nor logged.
evaluate(node, st) ==
    IF node.type = "null" THEN Ok(st, Undef)
    ELSE IF node.type = "AccessorCall"
    THEN callFunction(node.fn, node.object, node.args, st)
    ELSE IF st.fuel = 0 THEN Thrown(st, Diverged)
    ELSE handle(node, [st EXCEPT !.fuel = @ - 1,
                                 !.trace = IF Label(node) = "" THEN @
                                           ELSE Append(@, Label(node))])

----------------------------------------------------------------------------
(* The programs handed to interpretTree.  A program is named by its family  *)
(* and three parameters; Program(p) is its tree.                            *)

\* iterations of the outer and of the inner loop of the loop programs
OuterIters == 2
InnerIters == 3

Count(seq, x) == Cardinality({i \in 1..Len(seq) : seq[i] = x})

LoopKinds == <<"for", "while", "do-while", "for-in", "for-of">>

\* a loop of the given kind that runs `body` lim times (lim >= 1), counting in v
LoopOver(kind, v, lim, body) ==
    CASE kind = "for" ->
           <<For(VarDeclaration("let", <<Declarator(Binding(v), NumLit(1))>>),
                 Bin("<=", Id(v), NumLit(lim)), Incr(v), body)>>
      [] kind = "while" ->
           <<ExprStmt(Assign(Target(v), NumLit(0))),
             While(Bin("<", Incr(v), NumLit(lim)), body)>>
      [] kind = "do-while" ->
           <<ExprStmt(Assign(Target(v), NumLit(0))),
             DoWhile(body, Bin("<", Update("++", TRUE, Target(v)), NumLit(lim)))>>
      [] kind = "for-in" ->
           <<ForIn(VarDeclaration("let", <<Declarator(Binding(v), NoNode)>>),
                   ObjectLit([i \in 1..lim |-> DataProperty(IndexKeys[i], NumLit(1))]),
                   body)>>
      [] kind = "for-of" ->
           <<ForOf(VarDeclaration("let", <<Declarator(Binding(v), NoNode)>>),
                   ArrayLit([i \in 1..lim |-> NumLit(i)]), body)>>

\* the statement labelled "dead" follows a break or continue in its block
Dead == L("dead", ExprStmt(Incr("y")))

\* bodies of the inner loop: x counts the iterations begun
InnerBodies ==
    << BlockStmt(<<ExprStmt(Incr("x")), Break, Dead>>),
       BlockStmt(<<ExprStmt(Incr("x")), Continue, Dead>>),
       BlockStmt(<<ExprStmt(Incr("x")), If(BoolLit(TRUE), Break, NoNode), Dead>>),
       BlockStmt(<<ExprStmt(Incr("x")), If(BoolLit(TRUE), Continue, NoNode), Dead>>),
       BlockStmt(<<ExprStmt(Incr("x")), If(Bin("<", Id("x"), NumLit(0)), Break, NoNode),
                   ExprStmt(Incr("y"))>>),
       BlockStmt(<<ExprStmt(Incr("x")), BlockStmt(<<Break>>), Dead>>),
       BlockStmt(<<ExprStmt(Incr("x")), BlockStmt(<<Continue>>), Dead>>),
       Break,
       Continue,
       BlockStmt(<<ExprStmt(Incr("x")), BlockStmt(<<Continue, Break>>)>>),
       BlockStmt(<<ExprStmt(Incr("x")), BlockStmt(<<Break, Continue>>)>>),
       BlockStmt(<<ExprStmt(Incr("x")), TryFinally(<<Break>>, NoNode, <<Continue>>)>>) >>

\* let x = 0, y = 0, b = 0;
\* OUTER (OuterIters times) { INNER (InnerIters times) BODY; after: b++ }  b;
LoopProgram(outer, inner, body) ==
    ScriptNode(
      <<Declare("let", "x", NumLit(0)), Declare("let", "y", NumLit(0)),
        Declare("let", "b", NumLit(0))>>
      \o LoopOver(LoopKinds[outer], "i", OuterIters,
                  BlockStmt(LoopOver(LoopKinds[inner], "j", InnerIters, InnerBodies[body])
                            \o <<L("after", ExprStmt(Incr("b")))>>))
      \o <<ExprStmt(Id("b"))>>)

----------------------------------------------------------------------------
(* Call programs: a callee of every kind, called from a caller of every     *)
(* kind, with a statement after the call.                                   *)

CalleeBodies ==
    << <<Return(NumLit(1))>>,
       <<If(BoolLit(TRUE), Return(NumLit(1)), NoNode)>>,
       <<ExprStmt(Incr("x"))>>,
       <<BlockStmt(<<Return(NumLit(1))>>)>> >>

\* the definition of callee g: function declaration, method o.g, arrow with
\* a block body, function expression
CalleeKinds == <<"declaration", "method", "arrow", "expression">>

DefineCallee(kind, params, body) ==
    CASE kind = "declaration" -> <<FunctionDecl("g", params, body)>>
      [] kind = "method" ->
           <<Declare("let", "o", ObjectLit(<<MethodProperty("g", params, body)>>))>>
      [] kind = "arrow" -> <<Declare("let", "g", Arrow(params, FunctionBodyNode(body)))>>
      [] kind = "expression" -> <<Declare("let", "g", FunctionExpr(params, body))>>

CallCallee(kind, args) ==
    IF kind = "method" THEN Call(Member(Id("o"), "g"), args) ELSE Call(Id("g"), args)

AfterCall == L("after", ExprStmt(Assign(Target("z"), NumLit(5))))

\* let x = 0, z = 0; <callee g>; then, at the top level, in a function or in
\* a method:  g(); after: z = 5; 2
CallProgram(callee, caller, body) ==
    LET stmts == <<ExprStmt(CallCallee(CalleeKinds[callee], <<>>)), AfterCall>> IN
    ScriptNode(
      <<Declare("let", "x", NumLit(0)), Declare("let", "z", NumLit(0))>>
      \o DefineCallee(CalleeKinds[callee], <<>>, CalleeBodies[body])
      \o CASE caller = 1 -> stmts \o <<ExprStmt(NumLit(2))>>
           [] caller = 2 ->
                <<FunctionDecl("caller", <<>>, stmts \o <<Return(NumLit(2))>>),
                  ExprStmt(Call(Id("caller"), <<>>))>>
           [] caller = 3 ->
                <<Declare("let", "q",
                          ObjectLit(<<MethodProperty("caller", <<>>,
                                                     stmts \o <<Return(NumLit(2))>>)>>)),
                  ExprStmt(Call(Member(Id("q"), "caller"), <<>>))>>)

Later == L("later", ExprStmt(Assign(Target("z"), NumLit(1))))

\* where the return of the callee stands
ReturnPlacements ==
    << <<Return(StrLit("in"))>>,
       <<If(BoolLit(TRUE), Return(StrLit("in")), NoNode)>>,
       <<If(BoolLit(TRUE), BlockStmt(<<Return(StrLit("in"))>>), NoNode)>>,
       <<BlockStmt(<<Return(StrLit("in"))>>)>>,
       <<BlockStmt(<<Return(StrLit("in")), Later>>)>>,
       <<If(BoolLit(TRUE), BlockStmt(<<Return(StrLit("in")), Later>>), NoNode)>>,
       <<BlockStmt(<<BlockStmt(<<Return(StrLit("in"))>>), Later>>)>> >>

\* <callee g>() { <return 'in' somewhere>; later: return 'out' }  g();
ReturnProgram(placement, callee) ==
    ScriptNode(
      <<Declare("let", "z", NumLit(0))>>
      \o DefineCallee(CalleeKinds[callee], <<>>,
                      ReturnPlacements[placement] \o <<L("later", Return(StrLit("out")))>>)
      \o <<ExprStmt(CallCallee(CalleeKinds[callee], <<>>))>>)

\* <callee g>() { 1 } or { throw 7 }; called at the top level, inside
\* try/catch at the top level, or inside try/catch in a method of r
ContextProgram(callee, completion, caller) ==
    LET call == ExprStmt(CallCallee(CalleeKinds[callee], <<>>))
        guarded == TryCatch(<<call>>, CatchClause("e", <<Empty>>))
    IN ScriptNode(
         DefineCallee(CalleeKinds[callee], <<>>,
                      IF completion = 1 THEN <<ExprStmt(NumLit(1))>> ELSE <<Throw(NumLit(7))>>)
         \o CASE caller = 1 -> <<call>>
              [] caller = 2 -> <<guarded, ExprStmt(This)>>
              [] caller = 3 ->
                   <<Declare("let", "r",
                             ObjectLit(<<MethodProperty("run", <<>>,
                                                        <<guarded, Return(This)>>)>>)),
                     ExprStmt(Bin("===", Call(Member(Id("r"), "run"), <<>>), Id("r")))>>)

\* an arrow returning `this`, created at the top level, in a method of r or
\* in a function; called as o.a() and bare (at the top level or in a method)
ArrowThisProgram(site, body, second) ==
    LET arrow == IF body = 1 THEN Arrow(<<>>, FunctionBodyNode(<<Return(This)>>))
                 ELSE Arrow(<<>>, This)
        remember == ExprStmt(Assign(Target("w"), This))
    IN ScriptNode(
         <<Declare("let", "w", NoNode)>>
         \o (CASE site = 1 ->
                   <<remember, Declare("let", "o", ObjectLit(<<DataProperty("a", arrow)>>))>>
              [] site = 2 ->
                   <<Declare("let", "r",
                             ObjectLit(<<DataProperty("mk",
                                            FunctionExpr(<<>>, <<remember, Return(arrow)>>))>>)),
                     Declare("let", "o",
                             ObjectLit(<<DataProperty("a", Call(Member(Id("r"), "mk"), <<>>))>>))>>
              [] site = 3 ->
                   <<FunctionDecl("mk", <<>>, <<remember, Return(arrow)>>),
                     Declare("let", "o",
                             ObjectLit(<<DataProperty("a", Call(Id("mk"), <<>>))>>))>>)
         \o <<Declare("const", "b", Member(Id("o"), "a")),
              Declare("let", "t1", Call(Member(Id("o"), "a"), <<>>))>>
         \o (IF second = 1 THEN <<Declare("let", "t2", Call(Id("b"), <<>>))>>
             ELSE <<Declare("let", "q",
                            ObjectLit(<<DataProperty("go",
                                           FunctionExpr(<<>>, <<Return(Call(Id("b"), <<>>))>>))>>)),
                    Declare("let", "t2", Call(Member(Id("q"), "go"), <<>>))>>)
         \o <<ExprStmt(Bin("===", Id("t1"), Id("t2")))>>)

\* var c = {test: <fn returning this>}; var b = {}; b.test = c.test;
\* t = <b>.test() | <b>["test"]() | f() | r.go() { return f() }
ReceiverProgram(form, kind, object) ==
    LET returnThis == <<Return(This)>>
        obj == IF object = 1 THEN L("obj", Id("b"))
               ELSE L("obj", Bin(",", Incr("n"), Id("b")))
    IN ScriptNode(
         <<Declare("let", "n", NumLit(0)),
           Declare("var", "c",
                   ObjectLit(<<CASE kind = 1 -> DataProperty("test", FunctionExpr(<<>>, returnThis))
                                 [] kind = 2 -> DataProperty("test", Id("hostThis"))
                                 [] kind = 3 -> MethodProperty("test", <<>>, returnThis)>>)),
           Declare("var", "b", ObjectLit(<<>>)),
           ExprStmt(Assign(MemberTarget(Id("b"), "test"), Member(Id("c"), "test")))>>
         \o CASE form = 1 -> <<Declare("let", "t", Call(Member(obj, "test"), <<>>))>>
              [] form = 2 -> <<Declare("let", "t", Call(Computed(obj, StrLit("test")), <<>>))>>
              [] form = 3 -> <<Declare("let", "f", Member(obj, "test")),
                               Declare("let", "t", Call(Id("f"), <<>>))>>
              [] form = 4 ->
                   <<Declare("let", "f", Member(obj, "test")),
                     Declare("let", "r",
                             ObjectLit(<<DataProperty("go",
                                            FunctionExpr(<<>>, <<Return(Call(Id("f"), <<>>))>>))>>)),
                     Declare("let", "t", Call(Member(Id("r"), "go"), <<>>))>>)

\* values that are no callables
NotCallables ==
    <<NumLit(1), Un("void", NumLit(0)), NullLit, StrLit("s"), ObjectLit(<<>>), BoolLit(TRUE)>>

\* let v = <value>; v()  |  let o = {p: <value>}; o.p()  |  o["p"]()
NotCallableProgram(value, form) ==
    ScriptNode(
      <<Declare("let", "v", NotCallables[value]),
        Declare("let", "o", ObjectLit(<<DataProperty("p", NotCallables[value])>>)),
        ExprStmt(CASE form = 1 -> Call(Id("v"), <<>>)
                   [] form = 2 -> Call(Member(Id("o"), "p"), <<>>)
                   [] form = 3 -> Call(Computed(Id("o"), StrLit("p")), <<>>)),
        AfterCall>>)

Shorthand(name) ==
    [type |-> "ShorthandProperty",
     name |-> [type |-> "IdentifierExpression", name |-> name, var |-> name]]

\* uses of the identifier u; in one, u is the direct operand of typeof
Uses ==
    << ExprStmt(Id("u")),
       ExprStmt(Bin("+", Id("u"), NumLit(1))),
       ExprStmt(Incr("u")),
       ExprStmt(Compound("+=", Target("u"), NumLit(1))),
       ExprStmt(Call(Id("hostArg"), <<Id("u")>>)),
       ExprStmt(Call(Id("u"), <<>>)),
       ExprStmt(Member(Id("u"), "p")),
       ExprStmt(Un("!", Id("u"))),
       ExprStmt(Assign(Target("y"), Un("typeof", Id("u")))),
       ExprStmt(Un("typeof", Member(Id("u"), "p"))),
       ExprStmt(Un("typeof", Bin("+", Id("u"), NumLit(1)))),
       ExprStmt(ObjectLit(<<Shorthand("u")>>)),
       ExprStmt(Un("void", Id("u"))),
       ExprStmt(Assign(Target("z"), Id("u"))),
       If(Id("u"), Empty, NoNode),
       ExprStmt(Bin("&&", BoolLit(TRUE), Id("u"))) >>
TypeofUse ==
    CHOOSE i \in 1..Len(Uses) :
      Uses[i] = ExprStmt(Assign(Target("y"), Un("typeof", Id("u"))))

\* binding: 1 u is bound nowhere, 2 u is a name of the ambient context,
\* 3 u is declared by the program.  site: 1 top level, 2 in a function
UndeclaredProgram(use, binding, site) ==
    ScriptNode(
      <<Declare("let", "y", NoNode)>>
      \o (IF binding = 3 THEN <<Declare("let", "u", NumLit(7))>> ELSE <<>>)
      \o (IF site = 1 THEN <<Uses[use]>>
          ELSE <<FunctionDecl("g", <<>>, <<Uses[use]>>), ExprStmt(Call(Id("g"), <<>>))>>)
      \o <<AfterCall>>)

BinaryOperators == <<"&&", "||", ",", "+", "===", "<", "-", "!==">>
LeftOperands ==
    <<NumLit(0), NumLit(1), StrLit(""), StrLit("s"), NullLit, Un("void", NumLit(0)),
      ObjectLit(<<>>), BoolLit(FALSE), BoolLit(TRUE)>>
\* host truthiness of the left operands, one by one
LeftTruthy == <<FALSE, TRUE, FALSE, TRUE, FALSE, FALSE, TRUE, FALSE, TRUE>>

\* let n = 0, l;  L: (l = <left>)  <op>  R: (n++)
BinaryProgram(op, left) ==
    ScriptNode(
      <<Declare("let", "n", NumLit(0)), Declare("let", "l", NoNode),
        ExprStmt(Bin(BinaryOperators[op], L("L", Assign(Target("l"), LeftOperands[left])),
                     L("R", Incr("n"))))>>)

\* T: try { <body> } [catch (e) { <handler> }] finally F: { k++ }
\* at the top level, in a function, or in a loop of OuterIters iterations
TryBodies == << <<ExprStmt(Incr("x"))>>, <<Throw(NumLit(5))>>, <<Return(NumLit(1))>>, <<Break>> >>
CatchClauses ==
    << NoNode,
       CatchClause("e", <<ExprStmt(Assign(Target("h"), Id("e")))>>),
       CatchClause("e", <<Throw(NumLit(6))>>) >>

FinallyProgram(body, clause, site) ==
    LET try == L("T", [TryFinally(TryBodies[body], CatchClauses[clause], <<ExprStmt(Incr("k"))>>)
                         EXCEPT !.finalizer = L("F", @)])
        stmts == <<try, AfterCall>>
    IN ScriptNode(
         <<Declare("let", "x", NumLit(0)), Declare("let", "k", NumLit(0)),
           Declare("let", "h", NumLit(0))>>
         \o CASE site = 1 -> stmts
              [] site = 2 -> <<FunctionDecl("g", <<>>, stmts), ExprStmt(Call(Id("g"), <<>>))>>
              [] site = 3 -> LoopOver("for", "i", OuterIters, BlockStmt(stmts)))

\* values a program throws
ThrownValues == <<NumLit(7), StrLit("s"), ObjectLit(<<>>), NullLit, Un("void", NumLit(0))>>

\* let v = <value>;  T: try { x++; <throw v | { throw v } | g() | nothing>;
\* rest: z = 1 } catch (e) { C: h = e; [throw 6 | throw e] }  after: z = 5
CatchProgram(value, place, handler) ==
    LET throw == Throw(Id("v"))
        catch == CatchClause("e",
                   <<L("C", ExprStmt(Assign(Target("h"), Id("e"))))>>
                   \o (CASE handler = 1 -> <<>>
                         [] handler = 2 -> <<Throw(NumLit(6))>>
                         [] handler = 3 -> <<Throw(Id("e"))>>))
        body == <<ExprStmt(Incr("x"))>>
                \o (CASE place = 1 -> <<throw>>
                      [] place = 2 -> <<BlockStmt(<<throw>>)>>
                      [] place = 3 -> <<ExprStmt(Call(Id("g"), <<>>))>>
                      [] place = 4 -> <<>>)
                \o <<L("rest", ExprStmt(Assign(Target("z"), NumLit(1))))>>
    IN ScriptNode(
         <<Declare("let", "x", NumLit(0)), Declare("let", "z", NumLit(0)),
           Declare("let", "h", NumLit(0)), Declare("let", "v", ThrownValues[value]),
           FunctionDecl("g", <<>>, <<throw>>),
           L("T", TryCatch(body, catch)), AfterCall>>)

Node(type) == [type |-> type]

\* statements and expressions of node kinds the evaluator does not implement
UnsupportedStatements ==
    <<Node("WithStatement"), Node("SwitchStatement"), Node("SwitchStatementWithDefault"),
      Node("LabeledStatement"), Node("ForAwaitStatement")>>
UnsupportedExpressions ==
    <<Node("NewTargetExpression"), Node("AwaitExpression"), Node("ClassExpression"),
      Node("YieldExpression"), Node("YieldGeneratorExpression"), Node("Super"),
      Call(Node("Super"), <<>>), Member(Node("Super"), "p"),
      Computed(Node("Super"), StrLit("p")),
      Assign(Node("ArrayAssignmentTarget"), NumLit(1)),
      Assign(Node("ObjectAssignmentTarget"), NumLit(1)),
      Un("delete", Member(Id("o"), "p"))>>

\* let y = 1, o = {};  <statement>  |  y = <expression>;  after: z = 5
\* at the top level or in a function
UnsupportedProgram(kind, site) ==
    LET stmts == <<IF kind <= Len(UnsupportedStatements) THEN UnsupportedStatements[kind]
                   ELSE ExprStmt(Assign(Target("y"),
                          UnsupportedExpressions[kind - Len(UnsupportedStatements)])),
                   AfterCall>>
    IN ScriptNode(
         <<Declare("let", "y", NumLit(1)), Declare("let", "z", NumLit(0)),
           Declare("let", "o", ObjectLit(<<>>))>>
         \o (IF site = 1 THEN stmts
             ELSE <<FunctionDecl("g", <<>>, stmts), ExprStmt(Call(Id("g"), <<>>))>>))

\* the options the host constructs the Interpreter with
Options(p) == [skipUnsupported |-> p.fam = "unsupported" /\ p.c = 2]

\* object literals with accessors for b: getter only, setter only, both in
\* either order, both after a data property b
AccessorLiterals ==
    LET getter == GetterProperty("b", <<Return(Member(This, "_b"))>>)
        setter == SetterProperty("b", "c",
                    <<ExprStmt(Assign(MemberTarget(This, "_b"),
                                      Bin("+", Id("c"), NumLit(10))))>>)
    IN << <<GetterProperty("b", <<Return(NumLit(2))>>)>>,
          <<setter>>,
          <<setter, getter>>,
          <<getter, setter>>,
          <<DataProperty("b", NumLit(1)), setter, getter>> >>

\* let a = <literal>;  [w = (a.b = 22) | w = (a["b"] = 22)];  t = a.b | a["b"]
AccessorProgram(literal, write, read) ==
    ScriptNode(
      <<Declare("let", "a", ObjectLit(AccessorLiterals[literal])),
        Declare("let", "w", NoNode)>>
      \o (CASE write = 1 ->
                 <<ExprStmt(Assign(Target("w"),
                                   Assign(MemberTarget(Id("a"), "b"), NumLit(22))))>>
            [] write = 2 ->
                 <<ExprStmt(Assign(Target("w"),
                                   Assign(ComputedTarget(Id("a"), StrLit("b")), NumLit(22))))>>
            [] write = 3 -> <<>>)
      \o <<Declare("let", "t", IF read = 1 THEN Member(Id("a"), "b")
                               ELSE Computed(Id("a"), StrLit("b")))>>)

\* which records of the context stack have the name u (ambient: 7, r: 8,
\* q: 9) and where u is read: in r.m(), or in q.n() called from r.m()
ContextShapes ==
    <<[ambient |-> TRUE,  r |-> FALSE, q |-> FALSE, nested |-> FALSE],
      [ambient |-> TRUE,  r |-> TRUE,  q |-> FALSE, nested |-> FALSE],
      [ambient |-> FALSE, r |-> TRUE,  q |-> FALSE, nested |-> FALSE],
      [ambient |-> TRUE,  r |-> TRUE,  q |-> TRUE,  nested |-> TRUE],
      [ambient |-> TRUE,  r |-> TRUE,  q |-> FALSE, nested |-> TRUE],
      [ambient |-> TRUE,  r |-> FALSE, q |-> FALSE, nested |-> TRUE]>>

\* store: 1 u is not in the store, 2 let u = 1, 3 var u, 4 u is the
\* parameter of the reading method (argument 2).
\* read: 1 t = u, 2 t = {u}.u
LookupProgram(store, shape, read) ==
    LET sh == ContextShapes[shape]
        params == IF store = 4 THEN <<Binding("u")>> ELSE <<>>
        args == IF store = 4 THEN <<NumLit(2)>> ELSE <<>>
        reader == <<ExprStmt(Assign(Target("t"),
                      IF read = 1 THEN Id("u")
                      ELSE Member(ObjectLit(<<Shorthand("u")>>), "u")))>>
        has(b, n) == IF b THEN <<DataProperty("u", NumLit(n))>> ELSE <<>>
    IN ScriptNode(
         (CASE store = 2 -> <<Declare("let", "u", NumLit(1))>>
            [] store = 3 -> <<Declare("var", "u", NoNode)>>
            [] OTHER -> <<>>)
         \o <<Declare("let", "t", NumLit(0)),
              Declare("let", "q",
                      ObjectLit(has(sh.q, 9) \o <<MethodProperty("n", params, reader)>>)),
              Declare("let", "r",
                      ObjectLit(has(sh.r, 8)
                        \o <<IF sh.nested
                             THEN MethodProperty("m", <<>>,
                                    <<ExprStmt(Call(Member(Id("q"), "n"), args))>>)
                             ELSE MethodProperty("m", params, reader)>>)),
              ExprStmt(Call(Member(Id("r"), "m"), IF sh.nested THEN <<>> ELSE args))>>)

\* the statements of the block under test:
\* 1  first: t = h(); k = h; [function h] z = 1; same = (k === h) [function h]
\* 2  first: t = v; var v = 3; t2 = v
\* 3  first: t = h(); var v = 3; function h() { return v }  t2 = h()
HoistedStatements(what, place) ==
    LET set(name, e) == ExprStmt(Assign(Target(name), e))
        h(e) == FunctionDecl("h", <<>>, <<Return(e)>>)
    IN CASE what = 1 ->
              <<L("first", set("t", Call(Id("h"), <<>>))), set("k", Id("h"))>>
              \o (IF place = 1 THEN <<h(NumLit(4))>> ELSE <<>>)
              \o <<set("z", NumLit(1)), set("same", Bin("===", Id("k"), Id("h")))>>
              \o (IF place = 2 THEN <<h(NumLit(4))>> ELSE <<>>)
         [] what = 2 ->
              <<L("first", set("t", Id("v"))), Declare("var", "v", NumLit(3)),
                set("t2", Id("v"))>>
         [] what = 3 ->
              <<L("first", set("t", Call(Id("h"), <<>>))), Declare("var", "v", NumLit(3)),
                h(Id("v")), set("t2", Call(Id("h"), <<>>))>>

\* the block is the script, the body of a function, a block statement, the
\* body of an arrow, the body of a loop, the body of a method
HoistingProgram(block, what, place) ==
    LET S == HoistedStatements(what, place) IN
    ScriptNode(
      CASE block = 1 -> S
        [] block = 2 -> <<FunctionDecl("g", <<>>, S), ExprStmt(Call(Id("g"), <<>>))>>
        [] block = 3 -> <<BlockStmt(S)>>
        [] block = 4 -> <<Declare("let", "g", Arrow(<<>>, FunctionBodyNode(S))),
                          ExprStmt(Call(Id("g"), <<>>))>>
        [] block = 5 -> <<DoWhile(BlockStmt(S), BoolLit(FALSE))>>
        [] block = 6 -> <<Declare("let", "o", ObjectLit(<<MethodProperty("g", <<>>, S)>>)),
                          ExprStmt(Call(Member(Id("o"), "g"), <<>>))>>)

\* the ways a program changes the captured variable n
Modifications ==
    <<Assign(Target("n"), Bin("*", Id("n"), NumLit(2))),
      Incr("n"),
      Compound("+=", Target("n"), NumLit(5))>>
\* what each does to the number x
Modified(how, x) == CASE how = 1 -> x * 2 [] how = 2 -> x + 1 [] how = 3 -> x + 5

\* the callable `get` reading n: function declaration, method, arrow with a
\* block body, function expression, arrow with an expression body
DefineGet(kind, before) ==
    LET body == before \o <<Return(Id("n"))>>
        RECURSIVE Sequenced(_, _)
        Sequenced(es, i) == IF i > Len(es) THEN Id("n")
                            ELSE Bin(",", es[i].expression, Sequenced(es, i + 1))
    IN CASE kind = 1 -> FunctionDecl("get", <<>>, body)
         [] kind = 2 -> Declare("let", "get",
                                Member(ObjectLit(<<MethodProperty("m", <<>>, body)>>), "m"))
         [] kind = 3 -> Declare("let", "get", Arrow(<<>>, FunctionBodyNode(body)))
         [] kind = 4 -> Declare("let", "get", FunctionExpr(<<>>, body))
         [] kind = 5 -> Declare("let", "get", Arrow(<<>>, Sequenced(before, 1)))

\* scope 1: let n = 1; <get>; t0 = get(); <mod>; t1 = get(); <mod>; t2 = get()
\* scope 2: get itself does <mod> before it reads n; t0, t1, t2 = get()
\* scope 3: n, get and mod() { <mod> } live in a function mk that returns
\*          {get, mod}
ClosureProgram(kind, how, scope) ==
    LET mod == ExprStmt(Modifications[how])
        set(name, e) == ExprStmt(Assign(Target(name), e))
        n == Declare("let", "n", NumLit(1))
    IN ScriptNode(
         CASE scope = 1 ->
                <<n, DefineGet(kind, <<>>),
                  set("t0", Call(Id("get"), <<>>)), mod,
                  set("t1", Call(Id("get"), <<>>)), mod,
                  L("last", set("t2", Call(Id("get"), <<>>)))>>
           [] scope = 2 ->
                <<n, DefineGet(kind, <<mod>>),
                  set("t0", Call(Id("get"), <<>>)),
                  set("t1", Call(Id("get"), <<>>)),
                  L("last", set("t2", Call(Id("get"), <<>>)))>>
           [] scope = 3 ->
                <<FunctionDecl("mk", <<>>,
                    <<n, DefineGet(kind, <<>>),
                      Return(ObjectLit(<<DataProperty("get", Id("get")),
                                         DataProperty("mod", FunctionExpr(<<>>, <<mod>>))>>))>>),
                  Declare("let", "o", Call(Id("mk"), <<>>)),
                  set("t0", Call(Member(Id("o"), "get"), <<>>)),
                  ExprStmt(Call(Member(Id("o"), "mod"), <<>>)),
                  set("t1", Call(Member(Id("o"), "get"), <<>>)),
                  ExprStmt(Call(Member(Id("o"), "mod"), <<>>)),
                  L("last", set("t2", Call(Member(Id("o"), "get"), <<>>)))>>)

Signals == <<Break, Continue, Return(StrLit("in"))>>

\* a block that is no loop body and no function body, with the signal in it:
\* { S; dead }   if (true) { S; dead }   { { S } dead }   { y = 0; S }
SignalBlock(shape, signal) ==
    CASE shape = 1 -> BlockStmt(<<signal, Dead>>)
      [] shape = 2 -> If(BoolLit(TRUE), BlockStmt(<<signal, Dead>>), NoNode)
      [] shape = 3 -> BlockStmt(<<BlockStmt(<<signal>>), Dead>>)
      [] shape = 4 -> BlockStmt(<<ExprStmt(Assign(Target("y"), NumLit(0))), signal>>)

\* break, continue: LOOP (OuterIters times) { body: x++; <block>; rest: z = 1 }
\*                  after: z = 5
\* return: <callee g>() { body: x++; <block>; rest: return 'out' }  g()
BlockProgram(signal, shape, site) ==
    LET body == L("body", ExprStmt(Incr("x")))
        block == SignalBlock(shape, Signals[signal])
    IN ScriptNode(
         <<Declare("let", "x", NumLit(0)), Declare("let", "y", NumLit(0)),
           Declare("let", "z", NumLit(0))>>
         \o (IF signal = 3
             THEN DefineCallee(CalleeKinds[site], <<>>,
                               <<body, block, L("rest", Return(StrLit("out")))>>)
                  \o <<ExprStmt(CallCallee(CalleeKinds[site], <<>>))>>
             ELSE LoopOver(LoopKinds[site], "i", OuterIters,
                           BlockStmt(<<body, block,
                                       L("rest", ExprStmt(Assign(Target("z"), NumLit(1))))>>))
                  \o <<AfterCall>>))

----------------------------------------------------------------------------
(* Return-in-loop programs: a callee whose body is a loop with a return in  *)
(* its body.                                                                *)

\* the loop body:  { body: x++; return 'in'; rest: y++ }     return 'in'
\*                 { body: x++; if (true) return 'in'; rest: y++ }
ReturningBodies ==
    << BlockStmt(<<L("body", ExprStmt(Incr("x"))), Return(StrLit("in")),
                   L("rest", ExprStmt(Incr("y")))>>),
       L("body", Return(StrLit("in"))),
       BlockStmt(<<L("body", ExprStmt(Incr("x"))),
                   If(BoolLit(TRUE), Return(StrLit("in")), NoNode),
                   L("rest", ExprStmt(Incr("y")))>>) >>

\* let x = 0, y = 0, z = 0; <callee g>() { LOOP (OuterIters times) BODY; later: z = 1 }
\* t = g(); after: z = 5
LoopReturnProgram(loop, body, callee) ==
    ScriptNode(
      <<Declare("let", "x", NumLit(0)), Declare("let", "y", NumLit(0)),
        Declare("let", "z", NumLit(0)), Declare("let", "t", NumLit(0))>>
      \o DefineCallee(CalleeKinds[callee], <<>>,
                      LoopOver(LoopKinds[loop], "i", OuterIters, ReturningBodies[body])
                      \o <<L("later", ExprStmt(Assign(Target("z"), NumLit(1))))>>)
      \o <<ExprStmt(Assign(Target("t"), CallCallee(CalleeKinds[callee], <<>>))),
           AfterCall>>)

----------------------------------------------------------------------------
(* for(;;) programs: init, test, body and update are labelled I, T, B, U.   *)

\* the init:  let i = (I: 1)      I: i = 1
ForInits ==
    << VarDeclaration("let", <<Declarator(Binding("i"), L("I", NumLit(1)))>>),
       L("I", Assign(Target("i"), NumLit(1))) >>

\* the body:  { B: x++ }    { B: x++; continue; dead }    { B: x++; break; dead }
\*            { B: x++; if (true) continue; }
\*            { B: x++; if (i >= 2) break; }      B: x++
ForBodies ==
    << BlockStmt(<<L("B", ExprStmt(Incr("x")))>>),
       BlockStmt(<<L("B", ExprStmt(Incr("x"))), Continue, Dead>>),
       BlockStmt(<<L("B", ExprStmt(Incr("x"))), Break, Dead>>),
       BlockStmt(<<L("B", ExprStmt(Incr("x"))), If(BoolLit(TRUE), Continue, NoNode)>>),
       BlockStmt(<<L("B", ExprStmt(Incr("x"))),
                   If(Bin(">=", Id("i"), NumLit(2)), Break, NoNode)>>),
       L("B", ExprStmt(Incr("x"))) >>

\* let x = 0, y = 0, z = 0;
\* for (INIT; T: i <= OuterIters; U: i++) BODY   after: z = 5
\* at the top level, or in the body of a function g that is called
ForProgram(init, body, site) ==
    LET loop == <<For(ForInits[init], L("T", Bin("<=", Id("i"), NumLit(OuterIters))),
                      L("U", Incr("i")), ForBodies[body])>> IN
    ScriptNode(
      <<Declare("let", "x", NumLit(0)), Declare("let", "y", NumLit(0)),
        Declare("let", "z", NumLit(0))>>
      \o (IF site = 1 THEN loop
          ELSE <<FunctionDecl("g", <<>>, loop), ExprStmt(Call(Id("g"), <<>>))>>)
      \o <<AfterCall>>)

----------------------------------------------------------------------------
(* Call-order programs: the callee parts are labelled F (callee), O (object *)
(* of a member callee) and K (computed key), the arguments A1, A2, ...      *)

Spread(e) == [type |-> "SpreadElement", expression |-> e]

\* the callee:  F: g      (O: o).g      (O: o)[K: 'g']
OrderCallees ==
    << L("F", Id("g")),
       Member(L("O", Id("o")), "g"),
       Computed(L("O", Id("o")), L("K", StrLit("g"))) >>

\* the labels the callee logs
CalleeSteps == << <<"F">>, <<"O">>, <<"O", "K">> >>

\* the arguments:  (A1: 1)    (A1: 1, A2: 2, A3: 3)    (A1: 1, ...(A2: [2, 3]), A3: 4)
\*                 (...(A1: [1, 2]))
OrderArguments ==
    << <<L("A1", NumLit(1))>>,
       <<L("A1", NumLit(1)), L("A2", NumLit(2)), L("A3", NumLit(3))>>,
       <<L("A1", NumLit(1)), Spread(L("A2", ArrayLit(<<NumLit(2), NumLit(3)>>))),
         L("A3", NumLit(4))>>,
       <<Spread(L("A1", ArrayLit(<<NumLit(1), NumLit(2)>>)))>> >>

\* the labels the arguments log, and the values the callee receives
ArgumentSteps == << <<"A1">>, <<"A1", "A2", "A3">>, <<"A1", "A2", "A3">>, <<"A1">> >>
ArgumentValues ==
    << <<Num(1)>>, <<Num(1), Num(2), Num(3)>>, <<Num(1), Num(2), Num(3), Num(4)>>,
       <<Num(1), Num(2)>> >>

\* let p1, p2, p3, p4, z = 0; function g(a, b, c, d) { p1 = a; ... p4 = d }
\* let o = { g: function (a, b, c, d) { p1 = a; ... p4 = d } }
\* CALLEE(ARGUMENTS); after: z = 5        at the top level or in a function h
CallOrderProgram(callee, arguments, site) ==
    LET params == <<Binding("a"), Binding("b"), Binding("c"), Binding("d")>>
        body == <<ExprStmt(Assign(Target("p1"), Id("a"))),
                  ExprStmt(Assign(Target("p2"), Id("b"))),
                  ExprStmt(Assign(Target("p3"), Id("c"))),
                  ExprStmt(Assign(Target("p4"), Id("d")))>>
        call == <<ExprStmt(Call(OrderCallees[callee], OrderArguments[arguments]))>>
    IN ScriptNode(
         <<Declare("let", "z", NumLit(0)),
           FunctionDecl("g", params, body),
           Declare("let", "o", ObjectLit(<<DataProperty("g", FunctionExpr(params, body))>>))>>
         \o (IF site = 1 THEN call
             ELSE <<FunctionDecl("h", <<>>, call), ExprStmt(Call(Id("h"), <<>>))>>)
         \o <<AfterCall>>)

----------------------------------------------------------------------------
(* Programs calling a callee whose body executes no return statement.       *)

\* the last expression of the body, and its value as the whole body of an
\* arrow (x is 0 then)
LastExpressions == <<NumLit(5), StrLit("v"), Incr("x"), Id("x")>>
ShorthandValues == <<Num(5), Str("v"), Num(0), Num(0)>>

\* block bodies without a return:  { x++; E }     { x++; if (true) E }
\*                                 { x++; { E } }
NoReturnBody(shape, e) ==
    <<ExprStmt(Incr("x"))>> \o
    (CASE shape = 1 -> <<ExprStmt(e)>>
       [] shape = 2 -> <<If(BoolLit(TRUE), ExprStmt(e), NoNode)>>
       [] shape = 3 -> <<BlockStmt(<<ExprStmt(e)>>)>>)

\* let x = 0, t = 0, z = 0; <callee g>() BODY    t = g(); after: z = 5
\* shape 4 is the arrow with an expression body:  let g = () => E
NoReturnProgram(e, shape, callee) ==
    ScriptNode(
      <<Declare("let", "x", NumLit(0)), Declare("let", "t", NumLit(0)),
        Declare("let", "z", NumLit(0))>>
      \o (IF shape = 4 THEN <<Declare("let", "g", Arrow(<<>>, LastExpressions[e]))>>
          ELSE DefineCallee(CalleeKinds[callee], <<>>, NoReturnBody(shape, LastExpressions[e])))
      \o <<ExprStmt(Assign(Target("t"),
                           CallCallee(IF shape = 4 THEN "arrow" ELSE CalleeKinds[callee], <<>>))),
           AfterCall>>)

----------------------------------------------------------------------------
(* Programs observing the value of a try/finally statement.                 *)

\* try { 5 }     try { throw 5 } catch (e) { h = e; 6 }     try { return 1 }
\* try { 5 } catch (e) { 6 }
ValueTryBodies == << <<ExprStmt(NumLit(5))>>, <<Throw(NumLit(5))>>, <<Return(NumLit(1))>>,
                     <<ExprStmt(NumLit(5))>> >>
ValueCatchClauses ==
    << NoNode,
       CatchClause("e", <<ExprStmt(Assign(Target("h"), Id("e"))), ExprStmt(NumLit(6))>>),
       NoNode,
       CatchClause("e", <<ExprStmt(NumLit(6))>>) >>

\* finally { k++; 2 }     finally { 'f' }     finally { k++ }     finally { }
Finalizers ==
    << <<ExprStmt(Incr("k")), ExprStmt(NumLit(2))>>, <<ExprStmt(StrLit("f"))>>,
       <<ExprStmt(Incr("k"))>>, <<>> >>
FinalizerValues == <<Num(2), Str("f"), Num(0), Undef>>

\* let k = 0, h = 0, t = 0;
\* the try statement as the last statement of the script, or (try { return 1 })
\* <callee g>() { TRY; later: return 9 }  t = g(); t
FinallyValueProgram(body, finalizer, callee) ==
    LET try == [TryFinally(ValueTryBodies[body], ValueCatchClauses[body],
                           Finalizers[finalizer])
                  EXCEPT !.finalizer = L("F", @)]
    IN ScriptNode(
         <<Declare("let", "k", NumLit(0)), Declare("let", "h", NumLit(0)),
           Declare("let", "t", NumLit(0))>>
         \o (IF body /= 3 THEN <<try>>
             ELSE DefineCallee(CalleeKinds[callee], <<>>,
                               <<try, L("later", Return(NumLit(9)))>>)
                  \o <<ExprStmt(Assign(Target("t"), CallCallee(CalleeKinds[callee], <<>>))),
                       ExprStmt(Id("t"))>>))

----------------------------------------------------------------------------
(* Recursion programs: a callee g(n) that calls itself with n - 1 and then  *)
(* reads its parameter or a local.                                          *)

\* the local of the activation and the read after the nested call:
\*   t = n       let loc = n * 10; ...; t = loc       var loc = n * 10; ...; t = loc
\*   var loc; loc = n * 10; ...; t = loc
ActivationLocals ==
    << <<>>,
       <<Declare("let", "loc", Bin("*", Id("n"), NumLit(10)))>>,
       <<Declare("var", "loc", Bin("*", Id("n"), NumLit(10)))>>,
       <<Declare("var", "loc", NoNode),
         ExprStmt(Assign(Target("loc"), Bin("*", Id("n"), NumLit(10))))>> >>

\* what the activation g(n) reads after the nested call has returned
ActivationValue(local, n) == IF local = 1 THEN Num(n) ELSE Num(n * 10)

\* the depth of the recursion: the outermost call is g(RecursionDepth(c))
RecursionDepth(c) == c + 1

\* let t = 0, d = 0, z = 0;
\* <callee g>(n) { LOCAL; d++; if (n > 1) g(n - 1); last: t = READ }
\* g(DEPTH); after: z = 5
RecursionProgram(callee, local, depth) ==
    LET kind == CalleeKinds[callee]
        read == IF local = 1 THEN Id("n") ELSE Id("loc")
        body == ActivationLocals[local]
                \o <<ExprStmt(Incr("d")),
                     If(Bin(">", Id("n"), NumLit(1)),
                        ExprStmt(CallCallee(kind, <<Bin("-", Id("n"), NumLit(1))>>)), NoNode),
                     L("last", ExprStmt(Assign(Target("t"), read)))>>
    IN ScriptNode(
         <<Declare("let", "t", NumLit(0)), Declare("let", "d", NumLit(0)),
           Declare("let", "z", NumLit(0))>>
         \o DefineCallee(kind, <<Binding("n")>>, body)
         \o <<ExprStmt(CallCallee(kind, <<NumLit(RecursionDepth(depth))>>)), AfterCall>>)

----------------------------------------------------------------------------
(* Regular expression literals: every subset of the six flags.              *)

RegExpPatterns == <<"ab", "a+b">>

\* bit i (from 1) of the subset index k (from 1)
FlagBit(k, i) == ((k - 1) \div (2 ^ (i - 1))) % 2 = 1

\* the flags set on the literal: lo picks among the first three flags of
\* RegExpFlags, hi among the last three
LiteralFlagSet(lo, hi) ==
    {RegExpFlags[i] : i \in {j \in 1..3 : FlagBit(lo, j)}}
    \cup {RegExpFlags[i + 3] : i \in {j \in 1..3 : FlagBit(hi, j)}}

\* let z = 0; let r = /PATTERN/FLAGS; after: z = 5
RegExpProgram(lo, hi, pattern) ==
    ScriptNode(
      <<Declare("let", "z", NumLit(0)),
        Declare("let", "r", L("re", RegExpLit(RegExpPatterns[pattern], LiteralFlagSet(lo, hi)))),
        AfterCall>>)

----------------------------------------------------------------------------
(* Template literals: raw text fragments interleaved with expressions.      *)

\* the interpolated expression:  's'  12  true  void 0  null  u (let u;)
TemplateValues ==
    <<StrLit("s"), NumLit(12), BoolLit(TRUE), Un("void", NumLit(0)), NullLit, Id("u")>>
\* the text the host + operator gives each of them next to a string
PlusTexts == <<"s", "12", "true", "undefined", "null", "undefined">>

\* `a${X: E}b${Y: k++}c`   `${X: E}`   `${Y: k++}-${X: E}`   `<${X: E}${Y: k++}>`
TemplateShapes(e) ==
    LET X == L("X", e)
        Y == L("Y", Incr("k"))
    IN << <<TemplateElement("a"), X, TemplateElement("b"), Y, TemplateElement("c")>>,
          <<TemplateElement(""), X, TemplateElement("")>>,
          <<TemplateElement(""), Y, TemplateElement("-"), X, TemplateElement("")>>,
          <<TemplateElement("<"), X, TemplateElement(""), Y, TemplateElement(">")>> >>

\* the string of each shape, text being the text of E (k++ yields 0)
TemplateTexts(text) ==
    <<"a" \o text \o "b0c", text, "0-" \o text, "<" \o text \o "0>">>
\* the labelled expressions of each shape in source order
TemplateSteps == << <<"X", "Y">>, <<"X">>, <<"Y", "X">>, <<"X", "Y">> >>

\* let k = 0, z = 0, t = 0; let u;
\* t = TEMPLATE; after: z = 5      at the top level or in a function g
TemplateProgram(value, shape, site) ==
    LET stmts == <<ExprStmt(Assign(Target("t"),
                                   Template(TemplateShapes(TemplateValues[value])[shape]))),
                   AfterCall>>
    IN ScriptNode(
         <<Declare("let", "k", NumLit(0)), Declare("let", "z", NumLit(0)),
           Declare("let", "t", NumLit(0)), Declare("let", "u", NoNode)>>
         \o (IF site = 1 THEN stmts
             ELSE <<FunctionDecl("g", <<>>, stmts), ExprStmt(Call(Id("g"), <<>>))>>))

Programs ==
    [fam : {"loops"}, a : 1..Len(LoopKinds), b : 1..Len(LoopKinds), c : 1..Len(InnerBodies)]
    \cup [fam : {"calls"}, a : 1..Len(CalleeKinds), b : 1..3, c : 1..Len(CalleeBodies)]
    \cup [fam : {"returns"}, a : 1..Len(ReturnPlacements), b : 1..Len(CalleeKinds), c : {1}]
    \cup [fam : {"contexts"}, a : 1..Len(CalleeKinds), b : 1..2, c : 1..3]
    \cup [fam : {"arrowThis"}, a : 1..3, b : 1..2, c : 1..2]
    \cup [fam : {"receiver"}, a : 1..4, b : 1..3, c : 1..2]
    \cup [fam : {"notCallable"}, a : 1..Len(NotCallables), b : 1..3, c : {1}]
    \cup [fam : {"undeclared"}, a : 1..Len(Uses), b : 1..3, c : 1..2]
    \cup [fam : {"binary"}, a : 1..Len(BinaryOperators), b : 1..Len(LeftOperands), c : {1}]
    \cup [fam : {"catch"}, a : 1..Len(ThrownValues), b : 1..4, c : 1..3]
    \cup [fam : {"unsupported"}, a : 1..(Len(UnsupportedStatements) + Len(UnsupportedExpressions)), b : 1..2, c : 1..2]
    \cup {p \in [fam : {"accessors"}, a : 1..Len(AccessorLiterals), b : 1..3, c : 1..2] : p.a = 1 => p.b = 3}
    \cup [fam : {"lookup"}, a : 1..4, b : 1..Len(ContextShapes), c : 1..2]
    \cup [fam : {"hoisting"}, a : 1..6, b : 1..3, c : 1..2]
    \cup [fam : {"closure"}, a : 1..5, b : 1..Len(Modifications), c : 1..3]
    \cup {p \in [fam : {"blocks"}, a : 1..Len(Signals), b : 1..4, c : 1..Len(LoopKinds)] : p.a = 3 => p.c <= Len(CalleeKinds)}
    \cup [fam : {"loopReturn"}, a : 1..Len(LoopKinds), b : 1..Len(ReturningBodies), c : 1..Len(CalleeKinds)]
    \cup [fam : {"forSteps"}, a : 1..Len(ForInits), b : 1..Len(ForBodies), c : 1..2]
    \cup [fam : {"callOrder"}, a : 1..Len(OrderCallees), b : 1..Len(OrderArguments), c : 1..2]
    \cup {p \in [fam : {"noReturn"}, a : 1..Len(LastExpressions), b : 1..4, c : 1..Len(CalleeKinds)] : p.b = 4 => p.c = 1}
    \cup {p \in [fam : {"finallyValue"}, a : 1..Len(ValueTryBodies), b : 1..Len(Finalizers), c : 1..Len(CalleeKinds)] : p.a /= 3 => p.c = 1}
    \cup [fam : {"recursion"}, a : 1..Len(CalleeKinds), b : 1..Len(ActivationLocals), c : 1..2]
    \cup [fam : {"regexp"}, a : 1..8, b : 1..8, c : 1..Len(RegExpPatterns)]
    \cup [fam : {"template"}, a : 1..Len(TemplateValues), b : 1..4, c : 1..2]
    \cup {p \in [fam : {"finally"}, a : 1..Len(TryBodies), b : 1..Len(CatchClauses), c : 1..3] :
            /\ p.a = 3 => p.c = 2
            /\ p.a = 4 => p.c = 3}

Program(p) ==
    CASE p.fam = "loops" -> LoopProgram(p.a, p.b, p.c)
      [] p.fam = "calls" -> CallProgram(p.a, p.b, p.c)
      [] p.fam = "returns" -> ReturnProgram(p.a, p.b)
      [] p.fam = "contexts" -> ContextProgram(p.a, p.b, p.c)
      [] p.fam = "arrowThis" -> ArrowThisProgram(p.a, p.b, p.c)
      [] p.fam = "receiver" -> ReceiverProgram(p.a, p.b, p.c)
      [] p.fam = "notCallable" -> NotCallableProgram(p.a, p.b)
      [] p.fam = "undeclared" -> UndeclaredProgram(p.a, p.b, p.c)
      [] p.fam = "binary" -> BinaryProgram(p.a, p.b)
      [] p.fam = "finally" -> FinallyProgram(p.a, p.b, p.c)
      [] p.fam = "catch" -> CatchProgram(p.a, p.b, p.c)
      [] p.fam = "unsupported" -> UnsupportedProgram(p.a, p.b)
      [] p.fam = "accessors" -> AccessorProgram(p.a, p.b, p.c)
      [] p.fam = "lookup" -> LookupProgram(p.a, p.b, p.c)
      [] p.fam = "hoisting" -> HoistingProgram(p.a, p.b, p.c)
      [] p.fam = "closure" -> ClosureProgram(p.a, p.b, p.c)
      [] p.fam = "blocks" -> BlockProgram(p.a, p.b, p.c)
      [] p.fam = "loopReturn" -> LoopReturnProgram(p.a, p.b, p.c)
      [] p.fam = "forSteps" -> ForProgram(p.a, p.b, p.c)
      [] p.fam = "callOrder" -> CallOrderProgram(p.a, p.b, p.c)
      [] p.fam = "noReturn" -> NoReturnProgram(p.a, p.b, p.c)
      [] p.fam = "finallyValue" -> FinallyValueProgram(p.a, p.b, p.c)
      [] p.fam = "recursion" -> RecursionProgram(p.a, p.b, p.c)
      [] p.fam = "regexp" -> RegExpProgram(p.a, p.b, p.c)
      [] p.fam = "template" -> TemplateProgram(p.a, p.b, p.c)

\* the ambient context record the host hands to interpretTree
AmbientContext(p) ==
    LET host == SetData(SetData(NewObject, "hostThis", Host("hostThis")),
                        "hostArg", Host("hostArg"))
    IN IF \/ p.fam = "undeclared" /\ p.b = 2
          \/ p.fam = "lookup" /\ ContextShapes[p.b].ambient
       THEN SetData(host, "u", Num(7)) ELSE host

----------------------------------------------------------------------------
(* interpretTree(tree, context): new Interpreter(); load(tree);             *)
(* pushContext(context); run().                                             *)

NoResult == [val |-> Undef, thrown |-> FALSE]

\* how many times the host calls interpretTree
MaxRuns == 2

Init ==
    /\ prog \in Programs
    /\ phase = "new"
    /\ interp = Interpreter(Options(prog).skipUnsupported)
    /\ result = NoResult
    /\ runs = <<>>

\* interpreter.load(tree)
Load ==
    /\ phase = "new"
    /\ phase' = "loaded"
    /\ UNCHANGED <<prog, interp, result, runs>>

\* interpreter.pushContext(context)
PushContext ==
    /\ phase = "loaded"
    /\ LET context == allocObject(interp, AmbientContext(prog)) IN
       interp' = pushContext(context.st, context.val)
    /\ phase' = "ready"
    /\ UNCHANGED <<prog, result, runs>>

\* interpreter.run(): evaluate the loaded script
Run ==
    /\ phase = "ready"
    /\ LET r == evaluate(Program(prog), interp) IN
       /\ interp' = r.st
       /\ result' = [val |-> r.val, thrown |-> r.thrown]
       /\ runs' = Append(runs, [result |-> [val |-> r.val, thrown |-> r.thrown],
                                variableMap |-> r.st.variableMap,
                                heap |-> r.st.heap,
                                returning |-> r.st.returning,
                                depth |-> Len(r.st.contexts)])
    /\ phase' = "done"
    /\ UNCHANGED prog

\* the second call running on the Interpreter of the first
InterpretAgain_m ==
    /\ phase = "done"
    /\ Len(runs) < MaxRuns
    /\ interp' = [interp EXCEPT !.fuel = MaxFuel, !.trace = <<>>]
    /\ result' = NoResult
    /\ phase' = "new"
    /\ UNCHANGED <<prog, runs>>

\* the host calls interpretTree again with the same tree and an equal
\* context: a new Interpreter
InterpretAgain ==
    /\ phase = "done"
    /\ Len(runs) < MaxRuns
    /\ interp' = Interpreter(Options(prog).skipUnsupported)
    /\ result' = NoResult
    /\ phase' = "new"
    /\ UNCHANGED <<prog, runs>>

Next == Load \/ PushContext \/ Run \/ InterpretAgain

Spec == Init /\ [][Next]_vars

Done(fam) == phase = "done" /\ prog.fam = fam
Var(name) == interp.variableMap[name]
\* the contexts interpretTree set up before run()
ContextsAtRun == <<Obj(1), Obj(2)>>

----------------------------------------------------------------------------
(* C1: break and continue act on the innermost loop only; the enclosing     *)
(* loop's iteration goes on with the statement after the inner loop, and    *)
(* both flags are false when a loop statement completes.                    *)
C1_LoopsIsolated ==
    Done("loops") =>
      /\ ~result.thrown
      /\ ~interp.breaking /\ ~interp.continuing
      /\ Count(interp.trace, "after") = OuterIters
      /\ Count(interp.trace, "dead") = 0
      /\ result.val = Num(OuterIters)

(* C2: after a call of an interpreter callable (function, method, arrow     *)
(* with a block body) has returned, the returning flag is false, and the    *)
(* statement after the call in the caller is still evaluated.               *)
C2_NoSignalCrossesCall ==
    Done("calls") =>
      /\ ~result.thrown
      /\ ~interp.returning
      /\ Count(interp.trace, "after") = 1
      /\ result.val = Num(2)

(* C3: once a return has executed anywhere in a function body (also in an   *)
(* if branch or a nested block), no later statement of the function is      *)
(* evaluated and the call yields the value of the return expression.        *)
C3_ReturnEndsFunction ==
    Done("returns") =>
      /\ ~result.thrown
      /\ Count(interp.trace, "later") = 0
      /\ result.val = Str("in")

(* C4: the context stack after a call has the entries it had before the     *)
(* call, on normal completion and on a thrown exception; after the caller   *)
(* caught the exception, `this` in the caller is still its receiver.        *)
C4_ContextStackBalanced ==
    Done("contexts") =>
      /\ interp.contexts = ContextsAtRun
      /\ prog.c = 2 => result = [val |-> Obj(2), thrown |-> FALSE]
      /\ prog.c = 3 => result = [val |-> Bool(TRUE), thrown |-> FALSE]

(* C5: `this` in an arrow callable is the receiver current where the arrow  *)
(* expression was evaluated (w), never the callsite receiver: o.a() and a   *)
(* bare call b() both yield w, and o.a() does not yield o.                  *)
C5_ArrowKeepsThis ==
    Done("arrowThis") =>
      /\ ~result.thrown
      /\ Var("t1") = Var("w")
      /\ Var("t2") = Var("w")
      /\ Var("t1") /= Var("o")
      /\ result.val = Bool(TRUE)

\* an arrow made in a method of r, called as o.a() and from a method of q
C5_Witness ==
    /\ Done("arrowThis") /\ prog.a = 2 /\ prog.c = 2
    /\ Var("w") = Var("r") /\ Var("t1") = Var("r") /\ Var("t2") = Var("r")
    /\ Var("r") /= Var("o") /\ Var("r") /= Var("q")

(* C6: a call through a static or computed member access invokes the        *)
(* function with the value of the object as receiver, wherever the function *)
(* was defined, and evaluates the object expression exactly once; a call    *)
(* through any other callee has the caller's current context as receiver.   *)
C6_ReceiverOfCall ==
    Done("receiver") =>
      /\ ~result.thrown
      /\ Count(interp.trace, "obj") = 1
      /\ prog.c = 2 => Var("n") = Num(1)
      /\ Var("t") = CASE prog.a \in {1, 2} -> Var("b")
                      [] prog.a = 3 -> ContextsAtRun[2]
                      [] prog.a = 4 -> Var("r")

\* the method copied from c to b, called as (n++, b).test(), sees b
C6_Witness ==
    /\ Done("receiver") /\ prog.a = 1 /\ prog.b = 3 /\ prog.c = 2
    /\ Var("t") = Var("b") /\ Var("t") /= Var("c") /\ Var("n") = Num(1)

(* C7: a call whose callee value is not callable raises a type error and    *)
(* never completes normally with a value.                                   *)
C7_NotCallableRaises ==
    Done("notCallable") =>
      /\ result.thrown
      /\ result.val = Err("TypeError")
      /\ Count(interp.trace, "after") = 0

RightRequired(p) ==
    CASE BinaryOperators[p.a] = "&&" -> LeftTruthy[p.b]
      [] BinaryOperators[p.a] = "||" -> ~LeftTruthy[p.b]
      [] OTHER -> TRUE

C10_FinalizerOnce ==
    Done("finally") =>
      /\ Count(interp.trace, "T") >= 1
      /\ Count(interp.trace, "F") = Count(interp.trace, "T")
      /\ Var("k") = Num(Count(interp.trace, "T"))
      /\ result.thrown <=> (prog.a = 2 /\ prog.b /= 2)
      /\ result.thrown => result.val = Num(IF prog.b = 1 THEN 5 ELSE 6)

\* the catch body threw 6: the finalizer ran once and 6 propagates
C10_Witness ==
    /\ Done("finally") /\ prog.a = 2 /\ prog.b = 3 /\ prog.c = 2
    /\ Count(interp.trace, "F") = 1 /\ Var("k") = Num(1)
    /\ result = [val |-> Num(6), thrown |-> TRUE]

(* C11: when the body of a try/catch throws, the catch parameter is bound   *)
(* to exactly the thrown value, the rest of the try body is not evaluated,  *)
(* the catch body is evaluated once and the statement completes normally;   *)
(* an exception of the catch body propagates; when the body does not throw  *)
(* the catch body is never evaluated.                                       *)
C11_CatchBindsThrown ==
    Done("catch") =>
      IF prog.b = 4
      THEN /\ ~result.thrown
           /\ Count(interp.trace, "C") = 0
           /\ Count(interp.trace, "rest") = 1
           /\ Count(interp.trace, "after") = 1
      ELSE /\ Count(interp.trace, "rest") = 0
           /\ Count(interp.trace, "C") = 1
           /\ Var("e") = Var("v") /\ Var("h") = Var("v")
           /\ CASE prog.c = 1 -> ~result.thrown /\ Count(interp.trace, "after") = 1
                [] prog.c = 2 -> result = [val |-> Num(6), thrown |-> TRUE]
                [] prog.c = 3 -> result = [val |-> Var("v"), thrown |-> TRUE]

\* an object thrown by a called function is caught as that very object
C11_Witness ==
    /\ Done("catch") /\ prog.a = 3 /\ prog.b = 3 /\ prog.c = 1
    /\ TypeOf(Var("v")) = "object" /\ Var("e") = Var("v") /\ Var("h") = Var("v")
    /\ ~result.thrown /\ Var("z") = Num(5)

(* C12: for every unsupported node kind, an evaluator configured with       *)
(* skipUnsupported yields undefined for the node and goes on with the next  *)
(* node; one that is not raises an unsupported-construct runtime error.     *)
C12_SkipOrThrow ==
    Done("unsupported") =>
      IF interp.skipUnsupported
      THEN /\ ~result.thrown
           /\ Count(interp.trace, "after") = 1
           /\ prog.a > Len(UnsupportedStatements) => Var("y") = Undef
      ELSE /\ result = [val |-> Err("InterpreterRuntimeError"), thrown |-> TRUE]
           /\ Count(interp.trace, "after") = 0

\* the object the variable a holds
ObjectA == interp.heap[Var("a").n]

(* C13: for an object literal with a getter and/or setter for b, a.b = v    *)
(* invokes the setter on a with v (this._b = v + 10 lands on a) and stores  *)
(* no data value under b; a read of a.b invokes the getter on a and yields  *)
(* its result; the accessor property never carries a data value.            *)
C13_AccessorsInvoked ==
    Done("accessors") =>
      /\ ~result.thrown
      /\ "b" \notin DOMAIN ObjectA.props
      /\ prog.b /= 3 => /\ Var("w") = Num(22)
                        /\ "_b" \in DOMAIN ObjectA.props
                        /\ ObjectA.props["_b"] = Num(32)
      /\ Var("t") = CASE prog.a = 1 -> Num(2)
                      [] prog.a = 2 -> Undef
                      [] OTHER -> IF prog.b = 3 THEN Undef ELSE Num(32)

\* the tests' program: setter and getter, a.b = 22; a.b yields 32
C13_Witness ==
    /\ Done("accessors") /\ prog.a = 3 /\ prog.b = 1 /\ prog.c = 1
    /\ Var("t") = Num(32) /\ ObjectA.props["_b"] = Num(32)
    /\ "b" \notin DOMAIN ObjectA.props

\* the value the innermost record of the context stack with the name u has
InnermostContextValue(sh) ==
    IF sh.nested /\ sh.q THEN Num(9) ELSE IF sh.r THEN Num(8) ELSE Num(7)

(* C14: an identifier bound in the binding store yields the stored value    *)
(* whatever the contexts hold under its name; otherwise lookup yields the   *)
(* value of the innermost record of the context stack that has the name.    *)
C14_LookupPrecedence ==
    Done("lookup") =>
      /\ ~result.thrown
      /\ Var("t") = CASE prog.a = 1 -> InnermostContextValue(ContextShapes[prog.b])
                      [] prog.a = 2 -> Num(1)
                      [] prog.a = 3 -> Undef
                      [] prog.a = 4 -> Num(2)

\* u read in q.n(), q without u: the caller's receiver r is the first hit
C14_Witness ==
    /\ Done("lookup") /\ prog.a = 1 /\ prog.b = 5 /\ prog.c = 1
    /\ Len(interp.contexts) = 2 /\ Var("t") = Num(8)

ModifiedTimes(how, k) ==
    CASE k = 0 -> 1
      [] k = 1 -> Modified(how, 1)
      [] k = 2 -> Modified(how, Modified(how, 1))
      [] k = 3 -> Modified(how, Modified(how, Modified(how, 1)))

(* C16: a callable reading a variable of an enclosing scope yields at each  *)
(* call the value most recently assigned to it (by assignment, update or    *)
(* compound assignment, inside or outside the callable), not the value it   *)
(* had when the callable was created.                                       *)
C16_ClosuresAreLive ==
    Done("closure") =>
      LET first == IF prog.c = 2 THEN 1 ELSE 0 IN
      /\ ~result.thrown
      /\ Count(interp.trace, "last") = 1
      /\ Var("t0") = Num(ModifiedTimes(prog.b, first))
      /\ Var("t1") = Num(ModifiedTimes(prog.b, first + 1))
      /\ Var("t2") = Num(ModifiedTimes(prog.b, first + 2))
      /\ Var("n") = Var("t2")

C18_BlockStopsOnSignal ==
    Done("blocks") =>
      /\ ~result.thrown
      /\ Count(interp.trace, "dead") = 0
      /\ Count(interp.trace, "rest") = 0
      /\ CASE prog.a = 1 -> /\ Count(interp.trace, "body") = 1
                            /\ Count(interp.trace, "after") = 1
                            /\ ~interp.breaking /\ ~interp.continuing
           [] prog.a = 2 -> /\ Count(interp.trace, "body") = OuterIters
                            /\ Count(interp.trace, "after") = 1
                            /\ ~interp.breaking /\ ~interp.continuing
           [] prog.a = 3 -> /\ Count(interp.trace, "body") = 1
                            /\ result.val = Str("in")

(* C19: a return executed in the body of a loop in a function ends the      *)
(* loop: no further body statement, test, update or iteration is evaluated  *)
(* (the body is entered once), the statements after the loop are skipped    *)
(* and the call yields the returned value.                                  *)
C19_ReturnLeavesLoop ==
    Done("loopReturn") =>
      /\ ~result.thrown
      /\ Count(interp.trace, "body") = 1
      /\ Count(interp.trace, "rest") = 0
      /\ Count(interp.trace, "later") = 0
      /\ Var("t") = Str("in")
      /\ Count(interp.trace, "after") = 1

\* n full iterations of a for loop: test, body, update
ForIterations(n) == [k \in 1..(3 * n) |-> <<"T", "B", "U">>[((k - 1) % 3) + 1]]

\* the steps of the loop that were evaluated, in order
ForSteps == SelectSeq(interp.trace, LAMBDA l : l \in {"I", "T", "B", "U"})

(* C20: a for(;;) loop evaluates its init once, before the first test;      *)
(* every iteration evaluates test, body, update in that order; after a      *)
(* continue the update is still evaluated once before the next test; after  *)
(* a break neither the update nor the test is evaluated again.              *)
C20_ForStepOrder ==
    Done("forSteps") =>
      /\ ~result.thrown
      /\ Count(interp.trace, "dead") = 0
      /\ Count(interp.trace, "after") = 1
      /\ ~interp.breaking /\ ~interp.continuing
      /\ ForSteps = <<"I">> \o
           (CASE prog.b \in {1, 2, 4, 6} -> ForIterations(OuterIters) \o <<"T">>
              [] prog.b = 3 -> <<"T", "B">>
              [] prog.b = 5 -> ForIterations(1) \o <<"T", "B">>)

\* continue in every iteration: the update ran after each body, then the
\* test failed
C20_Witness ==
    /\ Done("forSteps") /\ prog.a = 1 /\ prog.b = 2 /\ prog.c = 1
    /\ ForSteps = <<"I">> \o ForIterations(OuterIters) \o <<"T">>
    /\ Var("x") = Num(OuterIters) /\ Var("y") = Num(0) /\ Var("z") = Num(5)

\* the steps of the call that were evaluated, in order
CallSteps ==
    SelectSeq(interp.trace, LAMBDA l : l \in {"F", "O", "K", "A1", "A2", "A3"})

\* the argument values the callee was given
Received ==
    LET all == <<Var("p1"), Var("p2"), Var("p3"), Var("p4")>> IN
    SelectSeq(all, LAMBDA v : v /= Undef)

(* C21: a call evaluates its callee (the object and the computed key of a   *)
(* member callee) before any argument, then the arguments left to right,    *)
(* each once, and the callee receives their values with the values of a     *)
(* spread argument inlined in place.                                        *)
C21_CallOrder ==
    Done("callOrder") =>
      /\ ~result.thrown
      /\ CallSteps = CalleeSteps[prog.a] \o ArgumentSteps[prog.b]
      /\ Received = ArgumentValues[prog.b]
      /\ Count(interp.trace, "after") = 1

(* C22: a call of a function, method or block-bodied arrow whose body       *)
(* executes no return yields undefined, whatever the last statement of the  *)
(* body yields; a call of an expression-bodied arrow yields the value of    *)
(* its body expression.                                                     *)
C22_NoReturnYieldsUndefined ==
    Done("noReturn") =>
      /\ ~result.thrown
      /\ Count(interp.trace, "after") = 1
      /\ Var("t") = IF prog.b = 4 THEN ShorthandValues[prog.a] ELSE Undef

(* C23: a try/finally statement whose finalizer completes normally yields   *)
(* the value of the finalizer block, in place of the value of the try body, *)
(* of the catch body, and of a return executed in the try body (the call    *)
(* then yields the finalizer's value).                                      *)
C23_FinalizerValue ==
    Done("finallyValue") =>
      /\ ~result.thrown
      /\ Count(interp.trace, "F") = 1
      /\ Count(interp.trace, "later") = 0
      /\ result.val = FinalizerValues[prog.b]
      /\ prog.a = 3 => Var("t") = FinalizerValues[prog.b]

\* function g() { try { return 1 } finally { k++; 2 } }: g() yields 2
C23_Witness ==
    /\ Done("finallyValue") /\ prog.a = 3 /\ prog.b = 1 /\ prog.c = 1
    /\ Var("t") = Num(2) /\ Var("k") = Num(1) /\ ~interp.returning

(* C24: after the recursive call g(n - 1) made from the activation g(n)     *)
(* has returned, a read of the parameter n or of a local of g in the outer  *)
(* activation yields the value it had there before the nested call: the     *)
(* last read, made by the outermost activation, yields its own values.      *)
C24_ActivationIsolation ==
    Done("recursion") =>
      /\ ~result.thrown
      /\ Var("d") = Num(RecursionDepth(prog.c))
      /\ Count(interp.trace, "last") = RecursionDepth(prog.c)
      /\ Var("t") = ActivationValue(prog.b, RecursionDepth(prog.c))
      /\ Count(interp.trace, "after") = 1

(* C25: a regular expression literal evaluates to a regex whose pattern is  *)
(* the literal's pattern and whose flags are exactly the flags set on the   *)
(* literal, for every subset of the six flags.                              *)
C25_RegExpFlags ==
    Done("regexp") =>
      /\ ~result.thrown
      /\ Count(interp.trace, "re") = 1
      /\ Var("r").t = "object"
      /\ LET regex == interp.heap[Var("r").n] IN
           /\ regex.kind = "regexp"
           /\ regex.props["source"] = Str(RegExpPatterns[prog.c])
           /\ \A i \in 1..Len(RegExpFlags) :
                regex.props[RegExpFlags[i]]
                  = Bool(RegExpFlags[i] \in LiteralFlagSet(prog.a, prog.b))

\* the labelled template expressions in the order they were evaluated
TemplateTrace == SelectSeq(interp.trace, LAMBDA l : l \in {"X", "Y"})

(* C26: a template literal evaluates to the concatenation, in source order, *)
(* of its raw text fragments and of its expressions' values, each converted *)
(* to a string as the host + operator converts it next to a string (so      *)
(* undefined and null give "undefined" and "null"); each expression is      *)
(* evaluated exactly once, left to right.                                   *)
C26_TemplateConcatenation ==
    Done("template") =>
      /\ ~result.thrown
      /\ TemplateTrace = TemplateSteps[prog.b]
      /\ Var("t") = Str(TemplateTexts(PlusTexts[prog.a])[prog.b])
      /\ Count(interp.trace, "after") = 1

====
